---- MODULE Spec2Model ----
(***************************************************************************)
(* lunitool: the UI state machine of src/app.rs and src/ui/tui.rs.         *)
(*                                                                         *)
(* The state is the App struct (ui_state, config, should_quit) together    *)
(* with the process-wide CURRENT_LANGUAGE of src/lang/mod.rs.  Every Rust  *)
(* function that changes state is an operator from an App record to an App *)
(* record, written in the order of the Rust statements; the actions apply  *)
(* App::handle_key_event to one key event of the event loop.               *)
(*                                                                         *)
(* Option<T> is a sequence of length at most one; Vec<T> is a sequence and *)
(* is indexed from 0 as in the source (Get, At).                           *)
(***************************************************************************)
EXTENDS Integers, Sequences, FiniteSets, TLC

VARIABLES ui_state, config, should_quit, panicked, CURRENT_LANGUAGE,
          terminal, last_tick_elapsed, pc

vars == <<ui_state, config, should_quit, panicked, CURRENT_LANGUAGE,
          terminal, last_tick_elapsed, pc>>

\* What App::run adds to the state of the handlers: the terminal (its size
\* and the frame it shows), whether tick_rate has passed since last_tick,
\* and the position of the control in the loop.
run_vars == <<terminal, last_tick_elapsed, pc>>

----------------------------------------------------------------------------
(* Bounds of the model *)

\* input_buffer grows without limit in the source; the model stops typing here.
MaxInput == 1

\* ThemeName::all() lists 8 palettes; the handlers read only themes.len(), and
\* the model keeps the first NumThemes entries of the catalogue.
NumThemes == 3

\* The layout of draw_installation_screen gives the task description a box of
\* DescriptionBoxHeight rows, and fewer on a terminal too small for it; the
\* model resizes the terminal down to a box MaxShrink rows lower.
MaxShrink == 2

\* The descriptions of the wizard steps are single lines; the scroll
\* bookkeeping on its own is examined for texts of up to MaxLines lines and
\* for scroll offsets up to MaxLines + 1.
MaxLines == 3

----------------------------------------------------------------------------
(* Option and Vec *)

None == <<>>
Some(x) == <<x>>
IsSome(o) == o # <<>>
IsNone(o) == o = <<>>
Unwrap(o) == o[1]

\* Vec::get(i)
Get(v, i) == IF i >= 0 /\ i < Len(v) THEN Some(v[i + 1]) ELSE None
\* v[i] for an index known to be in range
At(v, i) == v[i + 1]
\* v[i] = x
SetAt(v, i, x) == [v EXCEPT ![i + 1] = x]

----------------------------------------------------------------------------
(* src/lang/mod.rs *)

SupportedLanguages == {"de", "en"}

TranslatedKeys ==
    {"LANG_TITLE", "LANG_SUBTITLE", "LANG_LANGUAGE_SELECT", "LANG_KEYBOARD_SELECT",
     "LANG_NAVIGATION", "LANG_MAIN_MENU", "LANG_INSTALL", "LANG_INSTALL_DESC",
     "LANG_BACKUP", "LANG_BACKUP_DESC", "LANG_KEYS", "LANG_KEYS_DESC",
     "LANG_EXIT_CONFIRM", "LANG_YES", "LANG_NO", "LANG_INVALID_SELECTION",
     "LANG_NOT_IMPLEMENTED"}

\* The entry of a language table: the text of `key` in language `lang`.
Translation(lang, key) == lang \o ":" \o key

\* get_text: the current language's table, then the English one, then the key.
get_text(cur, key) ==
    IF cur \in SupportedLanguages /\ key \in TranslatedKeys THEN Translation(cur, key)
    ELSE IF cur # "en" /\ key \in TranslatedKeys THEN Translation("en", key)
    ELSE key

\* set_language: Err for a language without a table, else switches the language.
set_language_ok(lang) == lang \in SupportedLanguages

----------------------------------------------------------------------------
(* src/ui/theme.rs *)

ThemeNameAll ==
    <<"Ableton Disco", "Brown Sugar", "Lady Like", "Materia Matter",
      "Ratatui Rules", "Terminal Spirit", "Ubuntu Joy", "White Sur">>

\* iter().position(|t| t.name == name).unwrap_or(0)
RECURSIVE position_from(_, _, _)
position_from(v, name, i) ==
    IF i >= Len(v) THEN None
    ELSE IF At(v, i) = name THEN Some(i)
    ELSE position_from(v, name, i + 1)

----------------------------------------------------------------------------
(* src/core/disk_info.rs: the snapshot of the disk provider.  A partition's  *)
(* content and a LUKS container's mapped content are tagged records.         *)

FileSystem == [tag |-> "FileSystem"]
Swap == [tag |-> "Swap"]
Unknown == [tag |-> "Unknown"]
LvmPhysicalVolume(pv_uuid) == [tag |-> "LvmPhysicalVolume", pv_uuid |-> pv_uuid]
LuksContainer(uuid, mapped_name, mapped_content) ==
    [tag |-> "LuksContainer", uuid |-> uuid, mapped_name |-> mapped_name,
     mapped_content |-> mapped_content]

Partition(path, content) == [path |-> path, content |-> content]
PhysicalDisk(path, partitions) == [path |-> path, partitions |-> partitions]
LvmLogicalVolume(name, path) == [name |-> name, path |-> path]
LvmVolumeGroup(name, logical_volumes) == [name |-> name, logical_volumes |-> logical_volumes]
SystemDiskInfo(disks, lvm_volume_groups) ==
    [disks |-> disks, lvm_volume_groups |-> lvm_volume_groups]

\* Disk 1 of create_dummy_system_disk_info: EFI partition, LUKS container
\* mapped to an LVM physical volume.
dummy_sda ==
    PhysicalDisk("/dev/sda",
        << Partition("/dev/sda1", Some(FileSystem)),
           Partition("/dev/sda2",
               Some(LuksContainer("luks-uuid-sda2", Some("cr_lvm"),
                        Some(LvmPhysicalVolume("lvm-pv-uuid-on-cr_lvm"))))) >>)

\* Disk 2: NTFS partition and unallocated space.
dummy_sdb ==
    PhysicalDisk("/dev/sdb",
        << Partition("/dev/sdb1", Some(FileSystem)),
           Partition("/dev/sdb2", Some(Unknown)) >>)

\* Disk 3: swap and an LVM physical volume directly on the partition.
dummy_nvme ==
    PhysicalDisk("/dev/nvme0n1",
        << Partition("/dev/nvme0n1p1", Some(Swap)),
           Partition("/dev/nvme0n1p2", Some(LvmPhysicalVolume("lvm-pv-uuid-on-nvme"))) >>)

dummy_vg_system ==
    LvmVolumeGroup("vg_system",
        << LvmLogicalVolume("lv_root", "/dev/vg_system/lv_root"),
           LvmLogicalVolume("lv_home", "/dev/vg_system/lv_home") >>)

dummy_vg_data ==
    LvmVolumeGroup("vg_data", << LvmLogicalVolume("lv_games", "/dev/vg_data/lv_games") >>)

create_dummy_system_disk_info ==
    SystemDiskInfo(<<dummy_sda, dummy_sdb, dummy_nvme>>, <<dummy_vg_system, dummy_vg_data>>)

----------------------------------------------------------------------------
(* src/ui/tui.rs: build_disk_display_list.  display_text and size_bytes are  *)
(* what is drawn and are not part of the rows of the model.                  *)

DisplayListItem(id_path, indent_level, item_type, selectable) ==
    [id_path |-> id_path, indent_level |-> indent_level, item_type |-> item_type,
     selectable |-> selectable]

\* luks_mapped_rows whose physical-volume row can be selected (the mutant of C26).
luks_mapped_rows_pv_selectable(luks_id, mapped_name, mapped_content) ==
    IF IsSome(mapped_name) /\ IsSome(mapped_content)
    THEN LET mc == Unwrap(mapped_content) IN
         CASE mc.tag = "LvmPhysicalVolume" ->
                << DisplayListItem(luks_id \o "/lvm_pv/" \o mc.pv_uuid, 3,
                                   "LvmPhysicalVolume", TRUE) >>
           [] mc.tag = "FileSystem" ->
                << DisplayListItem(luks_id \o "/fs", 3, "FileSystemItem", TRUE) >>
           [] OTHER -> <<>>
    ELSE <<>>

\* The rows below a LUKS container: its mapped content, when it is open.
luks_mapped_rows(luks_id, mapped_name, mapped_content) ==
    IF IsSome(mapped_name) /\ IsSome(mapped_content)
    THEN LET mc == Unwrap(mapped_content) IN
         CASE mc.tag = "LvmPhysicalVolume" ->
                << DisplayListItem(luks_id \o "/lvm_pv/" \o mc.pv_uuid, 3,
                                   "LvmPhysicalVolume", FALSE) >>
           [] mc.tag = "FileSystem" ->
                << DisplayListItem(luks_id \o "/fs", 3, "FileSystemItem", TRUE) >>
           [] OTHER -> <<>>
    ELSE <<>>

\* The rows of `if let Some(content) = &partition.content { match content ... }`.
content_rows(part_id_base, content) ==
    IF IsNone(content) THEN <<>>
    ELSE LET c == Unwrap(content) IN
         CASE c.tag = "LuksContainer" ->
                LET luks_id == part_id_base \o "/luks/" \o c.uuid IN
                << DisplayListItem(luks_id, 2, "LuksContainer", IsNone(c.mapped_name)) >>
                \o luks_mapped_rows(luks_id, c.mapped_name, c.mapped_content)
           [] c.tag = "LvmPhysicalVolume" ->
                << DisplayListItem(part_id_base \o "/direct_lvm_pv/" \o c.pv_uuid, 2,
                                   "LvmPhysicalVolume", FALSE) >>
           [] c.tag = "Unknown" ->
                << DisplayListItem(part_id_base \o "/unallocated", 2,
                                   "UnallocatedSpace", TRUE) >>
           [] OTHER -> <<>>

\* partition_rows that gives every partition row the same id_path (the mutant
\* of C27).
RECURSIVE partition_rows_one_id(_, _)
partition_rows_one_id(partitions, i) ==
    IF i >= Len(partitions) THEN <<>>
    ELSE LET partition == At(partitions, i) IN
         << DisplayListItem("partition", 1, "Partition", TRUE) >>
         \o content_rows(partition.path, partition.content)
         \o partition_rows_one_id(partitions, i + 1)

RECURSIVE partition_rows(_, _)
partition_rows(partitions, i) ==
    IF i >= Len(partitions) THEN <<>>
    ELSE LET partition == At(partitions, i) IN
         << DisplayListItem(partition.path, 1, "Partition", TRUE) >>
         \o content_rows(partition.path, partition.content)
         \o partition_rows(partitions, i + 1)

RECURSIVE disk_rows(_, _)
disk_rows(disks, i) ==
    IF i >= Len(disks) THEN <<>>
    ELSE LET disk == At(disks, i) IN
         << DisplayListItem(disk.path, 0, "Disk", FALSE) >>
         \o partition_rows(disk.partitions, 0)
         \o disk_rows(disks, i + 1)

RECURSIVE lv_rows(_, _)
lv_rows(lvs, i) ==
    IF i >= Len(lvs) THEN <<>>
    ELSE << DisplayListItem(At(lvs, i).path, 2, "LvmLogicalVolume", TRUE) >>
         \o lv_rows(lvs, i + 1)

RECURSIVE vg_rows(_, _)
vg_rows(vgs, i) ==
    IF i >= Len(vgs) THEN <<>>
    ELSE LET vg == At(vgs, i) IN
         << DisplayListItem("lvm_vg/" \o vg.name, 1, "LvmVolumeGroup", FALSE) >>
         \o lv_rows(vg.logical_volumes, 0)
         \o vg_rows(vgs, i + 1)

build_disk_display_list(disk_info) ==
    disk_rows(disk_info.disks, 0)
    \o (IF disk_info.lvm_volume_groups # <<>>
        THEN << DisplayListItem("lvm_section_header", 0, "Label", FALSE) >>
             \o vg_rows(disk_info.lvm_volume_groups, 0)
        ELSE <<>>)

----------------------------------------------------------------------------
(* src/ui/widgets.rs and the enums of src/app.rs *)

Screens ==
    {"MainMenu", "LanguageSelect", "KeyboardSelect", "SystemInstallation",
     "Message", "ConfirmExit"}

YesNo(title_key, message_key) ==
    [type |-> "YesNo", title_key |-> title_key, message_key |-> message_key]
ThemeSelector == [type |-> "ThemeSelector", title_key |-> "", message_key |-> ""]

MenuItem(id, title, description) ==
    [id |-> id, title |-> title, description |-> description, menu_type |-> "Card"]

InstallationTaskItem(id, title, step, status) ==
    [id |-> id, title |-> title, step |-> step, status |-> status]

\* ratatui ScrollbarState, as far as .content_length() and .position() set it
ScrollbarState(content_length, position) ==
    [content_length |-> content_length, position |-> position]

\* ratatui's ListState: the selected row
ListState(selected) == [selected |-> selected]

----------------------------------------------------------------------------
(* The App record and what a handler can do to it *)

\* A handler reads and returns [ui_state, config, should_quit, panicked, lang];
\* env carries what the outside world decides during the call: whether
\* core::set_keyboard succeeds, and whether the build checks integer overflow.
App(env) ==
    [ui_state |-> ui_state, config |-> config, should_quit |-> should_quit,
     panicked |-> panicked, lang |-> CURRENT_LANGUAGE, env |-> env]

\* A Rust panic: the process is gone.
Panic(a) == [a EXCEPT !.panicked = TRUE]

USIZE == 2 ^ 64

\* x - y on usize when y > x: a panic with overflow checks, else wrapped.
usize_sub_wrapped(x, y) == (x - y + USIZE) % USIZE

----------------------------------------------------------------------------
(* src/ui/tui.rs: impl UiState *)

UiState_new(menu_items) ==
    LET themes == SubSeq(ThemeNameAll, 1, NumThemes)
        pos == position_from(themes, "Terminal Spirit", 0)
    IN [current_screen |-> "LanguageSelect",
        menu_items |-> menu_items,
        selected_index |-> 0,
        languages |-> <<"de", "en">>,
        keyboards |-> <<"de", "us">>,
        message |-> None,
        previous_screen |-> "LanguageSelect",
        installation_step |-> None,
        installation_tasks |-> <<>>,
        current_installation_task_index |-> 0,
        show_log_panel |-> FALSE,
        input_buffer |-> <<>>,
        installation_task_list_state |-> ListState(Some(0)),
        system_disk_info |-> None,
        disk_setup_selected_item_path |-> None,
        disk_setup_list_state |-> ListState(None),
        current_disk_display_items |-> <<>>,
        active_dialog |-> None,
        dialog_selected_option |-> 0,
        themes |-> themes,
        active_theme_index |-> IF IsSome(pos) THEN Unwrap(pos) ELSE 0,
        task_description_scroll_offset |-> 0,
        task_description_total_lines |-> 0,
        task_description_scrollbar_state |-> ScrollbarState(0, 0)]

\* set_current_screen that leaves selected_index where it was (the mutant of C21).
set_current_screen_keeps_cursor(a, new_screen) ==
    [a EXCEPT !.ui_state.previous_screen = a.ui_state.current_screen,
              !.ui_state.current_screen = new_screen]

set_current_screen(a, new_screen) ==
    LET a1 == [a EXCEPT !.ui_state.previous_screen = a.ui_state.current_screen,
                        !.ui_state.current_screen = new_screen]
    IN IF new_screen \in {"MainMenu", "LanguageSelect", "KeyboardSelect", "ConfirmExit"}
       THEN [a1 EXCEPT !.ui_state.selected_index = 0]
       ELSE a1

selected_menu_item(s) == Get(s.menu_items, s.selected_index)
selected_language(s) == Get(s.languages, s.selected_index)
selected_keyboard(s) == Get(s.keyboards, s.selected_index)

\* next_menu_item without the `% len` (the mutant of C6).
next_menu_item_no_wrap(a) ==
    [a EXCEPT !.ui_state.selected_index = @ + 1]

\* `%` by a zero len panics; `len - 1` with a zero len overflows usize, which
\* is a panic with overflow checks and wraps without them.
next_menu_item(a) ==
    IF Len(a.ui_state.menu_items) = 0 THEN Panic(a)
    ELSE [a EXCEPT !.ui_state.selected_index = (@ + 1) % Len(a.ui_state.menu_items)]

\* previous_menu_item that wraps to len instead of len - 1 (the mutant of C36)
previous_menu_item_wraps_to_len(a) ==
    IF a.ui_state.selected_index > 0
    THEN [a EXCEPT !.ui_state.selected_index = @ - 1]
    ELSE [a EXCEPT !.ui_state.selected_index = Len(a.ui_state.menu_items)]

previous_menu_item(a) ==
    IF a.ui_state.selected_index > 0
    THEN [a EXCEPT !.ui_state.selected_index = @ - 1]
    ELSE IF Len(a.ui_state.menu_items) = 0
    THEN IF a.env.overflow_checks THEN Panic(a)
         ELSE [a EXCEPT !.ui_state.selected_index = usize_sub_wrapped(0, 1)]
    ELSE [a EXCEPT !.ui_state.selected_index = Len(a.ui_state.menu_items) - 1]

next_language(a) ==
    IF Len(a.ui_state.languages) = 0 THEN Panic(a)
    ELSE [a EXCEPT !.ui_state.selected_index = (@ + 1) % Len(a.ui_state.languages)]

previous_language(a) ==
    IF a.ui_state.selected_index > 0
    THEN [a EXCEPT !.ui_state.selected_index = @ - 1]
    ELSE IF Len(a.ui_state.languages) = 0
    THEN IF a.env.overflow_checks THEN Panic(a)
         ELSE [a EXCEPT !.ui_state.selected_index = usize_sub_wrapped(0, 1)]
    ELSE [a EXCEPT !.ui_state.selected_index = Len(a.ui_state.languages) - 1]

next_keyboard(a) ==
    IF Len(a.ui_state.keyboards) = 0 THEN Panic(a)
    ELSE [a EXCEPT !.ui_state.selected_index = (@ + 1) % Len(a.ui_state.keyboards)]

previous_keyboard(a) ==
    IF a.ui_state.selected_index > 0
    THEN [a EXCEPT !.ui_state.selected_index = @ - 1]
    ELSE IF Len(a.ui_state.keyboards) = 0
    THEN IF a.env.overflow_checks THEN Panic(a)
         ELSE [a EXCEPT !.ui_state.selected_index = usize_sub_wrapped(0, 1)]
    ELSE [a EXCEPT !.ui_state.selected_index = Len(a.ui_state.keyboards) - 1]

show_message(a, title, content) ==
    [a EXCEPT !.ui_state.previous_screen = a.ui_state.current_screen,
              !.ui_state.message = Some(<<title, content>>),
              !.ui_state.current_screen = "Message"]

show_error(a, title, content) == show_message(a, "Error: " \o title, content)

\* clear_message that goes back through set_current_screen, which resets the
\* cursor of the menu screens (the mutant of C23).
clear_message_resets_cursor(a) ==
    set_current_screen([a EXCEPT !.ui_state.message = None], a.ui_state.previous_screen)

\* clear_message that goes back through set_current_screen, which records the
\* Message screen as the previous one (the mutant of C34).
clear_message_through_set_current_screen(a) ==
    set_current_screen([a EXCEPT !.ui_state.message = None], a.ui_state.previous_screen)

clear_message(a) ==
    [a EXCEPT !.ui_state.message = None,
              !.ui_state.current_screen = a.ui_state.previous_screen]

installation_step_requires_text_input(s) ==
    IsSome(s.installation_step) /\ Unwrap(s.installation_step) = "UserSetup"

----------------------------------------------------------------------------
(* src/ui/tui.rs: draw_ui.  A draw is what it does to the UiState and what  *)
(* it puts on the terminal; of the picture the model keeps which screen or  *)
(* popup is shown and the percentage of the progress gauge.                 *)

saturating_sub(x, y) == IF x > y THEN x - y ELSE 0

Min2(x, y) == IF x < y THEN x ELSE y

\* Constraint::Length(6) of the task description in draw_installation_screen
DescriptionBoxHeight == 6

\* str::lines().count(): the texts of the model hold no line break
lines_len(text) == IF text = "" THEN 0 ELSE 1

\* content_drawing_area.height: the box without its border and its margin
visible_height(area_height) == saturating_sub(saturating_sub(area_height, 2), 2)

description_text_key(s) ==
    LET step == IF IsSome(s.installation_step) THEN Unwrap(s.installation_step) ELSE "Welcome"
    IN CASE step = "Welcome" -> "INSTALL_WELCOME_DESC"
         [] step = "DiskSetup" -> "INSTALL_DISK_SETUP_DESC"
         [] step = "UserSetup" -> "INSTALL_USER_SETUP_DESC"
         [] OTHER -> "INFO_PENDING_IMPLEMENTATION"

\* Mutant of scroll_bookkeeping: the offset is not clamped
scroll_bookkeeping_no_clamp(s, total_lines, height) ==
    LET s1 == [s EXCEPT !.task_description_total_lines = total_lines]
        scrollbar_needed == s1.task_description_total_lines > height
        current_content_length == saturating_sub(s1.task_description_total_lines, height)
    IN IF scrollbar_needed
       THEN [s1 EXCEPT !.task_description_scrollbar_state =
                           ScrollbarState(current_content_length, s1.task_description_scroll_offset)]
       ELSE [s1 EXCEPT !.task_description_scroll_offset = 0,
                       !.task_description_scrollbar_state = ScrollbarState(0, 0)]

\* draw_task_description once the text has total_lines lines and the content
\* area has height rows.  The scrollbar takes the offset as it was before it
\* is clamped.
scroll_bookkeeping(s, total_lines, height) ==
    LET s1 == [s EXCEPT !.task_description_total_lines = total_lines]
        scrollbar_needed == s1.task_description_total_lines > height
        current_content_length == saturating_sub(s1.task_description_total_lines, height)
    IN IF scrollbar_needed
       THEN [s1 EXCEPT !.task_description_scrollbar_state =
                           ScrollbarState(current_content_length, s1.task_description_scroll_offset),
                       !.task_description_scroll_offset =
                           IF @ > current_content_length THEN current_content_length ELSE @]
       ELSE [s1 EXCEPT !.task_description_scroll_offset = 0,
                       !.task_description_scrollbar_state = ScrollbarState(0, 0)]

draw_task_description(s, lang, area_height) ==
    scroll_bookkeeping(s, lines_len(get_text(lang, description_text_key(s))),
                       visible_height(area_height))

\* Mutant of calculated_progress_percent: the tasks up to and including the
\* current one count as done
calculated_progress_percent_counts_current(s) ==
    LET total_tasks == Len(s.installation_tasks)
        current_task_idx == s.current_installation_task_index
    IN IF total_tasks = 0 THEN 0
       ELSE IF s.installation_step = Some("Welcome") /\ current_task_idx = 0 THEN 0
       ELSE Min2((200 * (current_task_idx + 1) + total_tasks) \div (2 * total_tasks), 65535)

\* f32 division, round() and `as u16`: the nearest integer, halves upwards
calculated_progress_percent(s) ==
    LET total_tasks == Len(s.installation_tasks)
        current_task_idx == s.current_installation_task_index
    IN IF total_tasks = 0 THEN 0
       ELSE IF s.installation_step = Some("Welcome") /\ current_task_idx = 0 THEN 0
       ELSE Min2((200 * current_task_idx + total_tasks) \div (2 * total_tasks), 65535)

progress_percent(s) == Min2(calculated_progress_percent(s), 100)

\* Of draw_installation_screen only draw_task_description assigns to the state;
\* draw_task_list works on a clone of installation_task_list_state.
draw_installation_screen(s, lang, area_height) == draw_task_description(s, lang, area_height)

\* The UiState after draw_ui
draw_ui(s, lang, area_height) ==
    IF IsSome(s.active_dialog) THEN s
    ELSE IF s.current_screen = "SystemInstallation"
         THEN draw_installation_screen(s, lang, area_height)
         ELSE s

\* What draw_ui puts on the terminal
Frame(s) ==
    IF IsSome(s.active_dialog)
    THEN [popup |-> s.active_dialog, screen |-> None, gauge |-> None]
    ELSE [popup |-> None, screen |-> Some(s.current_screen),
          gauge |-> IF s.current_screen = "SystemInstallation"
                    THEN Some(progress_percent(s)) ELSE None]

----------------------------------------------------------------------------
(* src/app.rs: the wizard *)

create_localized_menu_items(lang) ==
    << MenuItem("install", get_text(lang, "LANG_INSTALL"), get_text(lang, "LANG_INSTALL_DESC")),
       MenuItem("backup", get_text(lang, "LANG_BACKUP"), get_text(lang, "LANG_BACKUP_DESC")),
       MenuItem("keys", get_text(lang, "LANG_KEYS"), get_text(lang, "LANG_KEYS_DESC")) >>

initialize_installation_tasks(lang) ==
    << InstallationTaskItem("welcome", get_text(lang, "TASK_WELCOME"), "Welcome", "Active"),
       InstallationTaskItem("disk_setup", get_text(lang, "TASK_DISK_SETUP"), "DiskSetup", "Pending"),
       InstallationTaskItem("user_setup", get_text(lang, "TASK_USER_SETUP"), "UserSetup", "Pending"),
       InstallationTaskItem("summary", get_text(lang, "TASK_SUMMARY"), "Summary", "Pending") >>

\* tasks[i].status = status when i is in range (get_mut(i) is Some)
set_status_if_some(tasks, i, status) ==
    IF i >= 0 /\ i < Len(tasks) THEN [tasks EXCEPT ![i + 1].status = status] ELSE tasks

\* for (index, task) in tasks.iter_mut().enumerate(): the first task of the step
RECURSIVE find_step_from(_, _, _)
find_step_from(tasks, step, index) ==
    IF index >= Len(tasks) THEN None
    ELSE IF Some(At(tasks, index).step) = step THEN Some(index)
    ELSE find_step_from(tasks, step, index + 1)

update_active_task_status(a) ==
    LET s == a.ui_state
        demoted == [i \in 1..Len(s.installation_tasks) |->
                      IF s.installation_tasks[i].status = "Active"
                      THEN [s.installation_tasks[i] EXCEPT !.status = "Pending"]
                      ELSE s.installation_tasks[i]]
        idx == s.current_installation_task_index
        task_to_activate == Get(demoted, idx)
    IN IF IsSome(task_to_activate)
       THEN IF Some(Unwrap(task_to_activate).step) = s.installation_step
            THEN [a EXCEPT !.ui_state.installation_tasks = set_status_if_some(demoted, idx, "Active"),
                           !.ui_state.installation_task_list_state = ListState(Some(idx))]
            ELSE LET found == find_step_from(demoted, s.installation_step, 0) IN
                 IF IsSome(found)
                 THEN [a EXCEPT !.ui_state.installation_tasks =
                                    set_status_if_some(demoted, Unwrap(found), "Active"),
                                !.ui_state.current_installation_task_index = Unwrap(found),
                                !.ui_state.installation_task_list_state =
                                    ListState(Some(Unwrap(found)))]
                 ELSE [a EXCEPT !.ui_state.installation_tasks = demoted]
       ELSE [a EXCEPT !.ui_state.installation_tasks = demoted]

\* start_installation_wizard that keeps the installation_step it finds (the mutant of C9).
start_installation_wizard_keeps_step(a) ==
    LET a1 == [a EXCEPT !.ui_state.current_installation_task_index = 0,
                        !.ui_state.installation_tasks = initialize_installation_tasks(a.lang),
                        !.ui_state.installation_task_list_state = ListState(Some(0))]
    IN set_current_screen(update_active_task_status(a1), "SystemInstallation")

start_installation_wizard(a) ==
    LET a1 == [a EXCEPT !.ui_state.installation_step = Some("Welcome"),
                        !.ui_state.current_installation_task_index = 0,
                        !.ui_state.installation_tasks = initialize_installation_tasks(a.lang),
                        !.ui_state.installation_task_list_state = ListState(Some(0))]
    IN set_current_screen(update_active_task_status(a1), "SystemInstallation")

\* "Specific actions for entering a new step" of handle_installation_next_step
enter_step(a, step_to_set) ==
    IF step_to_set = "DiskSetup"
    THEN LET s == a.ui_state
             items == IF IsSome(s.system_disk_info)
                      THEN build_disk_display_list(Unwrap(s.system_disk_info))
                      ELSE s.current_disk_display_items
         IN [a EXCEPT !.ui_state.disk_setup_list_state = ListState(Some(0)),
                      !.ui_state.current_disk_display_items = items,
                      !.ui_state.disk_setup_selected_item_path =
                          IF IsSome(s.system_disk_info) /\ items # <<>>
                          THEN Some(At(items, 0).id_path)
                          ELSE None]
    ELSE a

\* advance_task that does not mark the task it leaves Completed (the mutant of C10).
advance_task_skips_completed(a) ==
    LET s == a.ui_state
        idx == s.current_installation_task_index
        next_task == Get(s.installation_tasks, idx + 1)
    IN IF IsSome(next_task)
       THEN enter_step(
                update_active_task_status(
                    [a EXCEPT !.ui_state.current_installation_task_index = idx + 1,
                              !.ui_state.installation_step = Some(Unwrap(next_task).step)]),
                Unwrap(next_task).step)
       ELSE a

\* The branch `current_installation_task_index < installation_tasks.len() - 1`
advance_task(a) ==
    LET s == a.ui_state
        idx == s.current_installation_task_index
        completed == set_status_if_some(s.installation_tasks, idx, "Completed")
        next_task == Get(completed, idx + 1)
    IN IF IsSome(next_task)
       THEN enter_step(
                update_active_task_status(
                    [a EXCEPT !.ui_state.installation_tasks = completed,
                              !.ui_state.current_installation_task_index = idx + 1,
                              !.ui_state.installation_step = Some(Unwrap(next_task).step)]),
                Unwrap(next_task).step)
       ELSE \* no next task: back to the previous index, which is made Active again
            [a EXCEPT !.ui_state.installation_tasks = set_status_if_some(completed, idx, "Active")]

\* handle_installation_next_step that starts over at task 0 after the last
\* task (the mutant of C11).
handle_installation_next_step_wraps(a) ==
    LET s == a.ui_state
        len == Len(s.installation_tasks)
        idx == s.current_installation_task_index
    IN IF len = 0 /\ a.env.overflow_checks THEN Panic(a)
       ELSE IF idx < (IF len = 0 THEN usize_sub_wrapped(0, 1) ELSE len - 1)
       THEN advance_task(a)
       ELSE [a EXCEPT !.ui_state.installation_tasks = set_status_if_some(@, idx, "Completed"),
                      !.ui_state.current_installation_task_index = 0]

handle_installation_next_step(a) ==
    LET s == a.ui_state
        len == Len(s.installation_tasks)
        idx == s.current_installation_task_index
    IN IF len = 0 /\ a.env.overflow_checks THEN Panic(a)
       ELSE IF idx < (IF len = 0 THEN usize_sub_wrapped(0, 1) ELSE len - 1)
       THEN advance_task(a)
       ELSE [a EXCEPT !.ui_state.installation_tasks = set_status_if_some(@, idx, "Completed")]

\* The branch `current_installation_task_index > 0` of
\* handle_installation_previous_step that leaves the previous task Active
\* beside the current one (the mutant of C1).
step_back_keeps_active(a) ==
    LET s == a.ui_state
        idx == s.current_installation_task_index
        active == SetAt(s.installation_tasks, idx - 1,
                        [At(s.installation_tasks, idx - 1) EXCEPT !.status = "Active"])
    IN [a EXCEPT !.ui_state.installation_tasks = active,
                 !.ui_state.current_installation_task_index = idx - 1,
                 !.ui_state.installation_step = Some(At(active, idx - 1).step),
                 !.ui_state.installation_task_list_state = ListState(Some(idx - 1)),
                 !.ui_state.input_buffer = <<>>]

\* The same branch without the assignment to installation_step (the mutant of C2).
step_back_keeps_step(a) ==
    LET s == a.ui_state
        idx == s.current_installation_task_index
        pending == SetAt(s.installation_tasks, idx,
                         [At(s.installation_tasks, idx) EXCEPT !.status = "Pending"])
        active == SetAt(pending, idx - 1, [At(pending, idx - 1) EXCEPT !.status = "Active"])
    IN [a EXCEPT !.ui_state.installation_tasks = active,
                 !.ui_state.current_installation_task_index = idx - 1,
                 !.ui_state.installation_task_list_state = ListState(Some(idx - 1)),
                 !.ui_state.input_buffer = <<>>]

\* The same branch that keeps what was typed in input_buffer (the mutant of C12).
step_back_keeps_input(a) ==
    LET s == a.ui_state
        idx == s.current_installation_task_index
        pending == SetAt(s.installation_tasks, idx,
                         [At(s.installation_tasks, idx) EXCEPT !.status = "Pending"])
        active == SetAt(pending, idx - 1, [At(pending, idx - 1) EXCEPT !.status = "Active"])
    IN [a EXCEPT !.ui_state.installation_tasks = active,
                 !.ui_state.current_installation_task_index = idx - 1,
                 !.ui_state.installation_step = Some(At(active, idx - 1).step),
                 !.ui_state.installation_task_list_state = ListState(Some(idx - 1))]

\* The same branch that marks the task it leaves Completed (the mutant of C14).
step_back_marks_completed(a) ==
    LET s == a.ui_state
        idx == s.current_installation_task_index
        completed == SetAt(s.installation_tasks, idx,
                           [At(s.installation_tasks, idx) EXCEPT !.status = "Completed"])
        active == SetAt(completed, idx - 1, [At(completed, idx - 1) EXCEPT !.status = "Active"])
    IN [a EXCEPT !.ui_state.installation_tasks = active,
                 !.ui_state.current_installation_task_index = idx - 1,
                 !.ui_state.installation_step = Some(At(active, idx - 1).step),
                 !.ui_state.installation_task_list_state = ListState(Some(idx - 1)),
                 !.ui_state.input_buffer = <<>>]

\* The branch `current_installation_task_index > 0`, for an index in range
step_back(a) ==
    LET s == a.ui_state
        idx == s.current_installation_task_index
        pending == SetAt(s.installation_tasks, idx,
                         [At(s.installation_tasks, idx) EXCEPT !.status = "Pending"])
        active == SetAt(pending, idx - 1, [At(pending, idx - 1) EXCEPT !.status = "Active"])
    IN [a EXCEPT !.ui_state.installation_tasks = active,
                 !.ui_state.current_installation_task_index = idx - 1,
                 !.ui_state.installation_step = Some(At(active, idx - 1).step),
                 !.ui_state.installation_task_list_state = ListState(Some(idx - 1)),
                 !.ui_state.input_buffer = <<>>]

\* handle_installation_previous_step that leaves the task list in place when
\* it exits the wizard (the mutant of C13).
handle_installation_previous_step_keeps_tasks(a) ==
    LET s == a.ui_state
        idx == s.current_installation_task_index
    IN IF s.installation_tasks = <<>>
       THEN LET a1 == set_current_screen(a, "MainMenu") IN
            [a1 EXCEPT !.ui_state.installation_step = None,
                       !.ui_state.installation_task_list_state = ListState(Some(0))]
       ELSE IF idx > 0
       THEN IF idx >= Len(s.installation_tasks) THEN Panic(a)
            ELSE step_back(a)
       ELSE LET a1 == set_current_screen(a, "MainMenu") IN
            [a1 EXCEPT !.ui_state.installation_step = None,
                       !.ui_state.installation_task_list_state = ListState(Some(0))]

\* handle_installation_previous_step that leaves the wizard from its first
\* task without resetting installation_step (the mutant of C35).
handle_installation_previous_step_keeps_step(a) ==
    LET s == a.ui_state
        idx == s.current_installation_task_index
    IN IF s.installation_tasks = <<>>
       THEN LET a1 == set_current_screen(a, "MainMenu") IN
            [a1 EXCEPT !.ui_state.installation_step = None,
                       !.ui_state.installation_task_list_state = ListState(Some(0))]
       ELSE IF idx > 0
       THEN IF idx >= Len(s.installation_tasks) THEN Panic(a)
            ELSE step_back(a)
       ELSE LET a1 == set_current_screen(a, "MainMenu") IN
            [a1 EXCEPT !.ui_state.installation_tasks = <<>>,
                       !.ui_state.installation_task_list_state = ListState(Some(0))]

handle_installation_previous_step(a) ==
    LET s == a.ui_state
        idx == s.current_installation_task_index
    IN IF s.installation_tasks = <<>>
       THEN LET a1 == set_current_screen(a, "MainMenu") IN
            [a1 EXCEPT !.ui_state.installation_step = None,
                       !.ui_state.installation_task_list_state = ListState(Some(0))]
       ELSE IF idx > 0
       THEN IF idx >= Len(s.installation_tasks) THEN Panic(a)   \* tasks[idx] out of range
            ELSE step_back(a)
       ELSE LET a1 == set_current_screen(a, "MainMenu") IN
            [a1 EXCEPT !.ui_state.installation_step = None,
                       !.ui_state.installation_tasks = <<>>,
                       !.ui_state.installation_task_list_state = ListState(Some(0))]

----------------------------------------------------------------------------
(* src/app.rs: key events.  A key is [code, ch, modifiers]; ch is the       *)
(* character of KeyCode::Char and "" otherwise.                             *)

IsChar(key, chars) == key.code = "Char" /\ key.ch \in chars

\* One step of the cursor in the direction of the key, wrapping.
disk_step(current_selected_index, num_options, up) ==
    IF up
    THEN IF current_selected_index > 0 THEN current_selected_index - 1 ELSE num_options - 1
    ELSE IF current_selected_index < num_options - 1 THEN current_selected_index + 1 ELSE 0

\* skip_loop that settles on the row it started from when it has gone round
\* the list without finding a selectable row (the mutant of C17).
RECURSIVE skip_loop_selects_dead_end(_, _, _, _)
skip_loop_selects_dead_end(items, current_selected_index, initial_try_index, up) ==
    LET item == Get(items, current_selected_index) IN
    IF IsSome(item) /\ Unwrap(item).selectable THEN Some(current_selected_index)
    ELSE LET next == disk_step(current_selected_index, Len(items), up) IN
         IF next = initial_try_index THEN Some(initial_try_index)
         ELSE skip_loop_selects_dead_end(items, next, initial_try_index, up)

\* The loop of handle_installation_input that looks for a selectable row: the
\* index it selects, or None when it comes back to where it started.
RECURSIVE skip_loop(_, _, _, _)
skip_loop(items, current_selected_index, initial_try_index, up) ==
    LET item == Get(items, current_selected_index) IN
    IF IsSome(item) /\ Unwrap(item).selectable THEN Some(current_selected_index)
    ELSE LET next == disk_step(current_selected_index, Len(items), up) IN
         IF next = initial_try_index THEN None
         ELSE skip_loop(items, next, initial_try_index, up)

\* The number of times the body of that loop runs
RECURSIVE skip_loop_iterations(_, _, _, _)
skip_loop_iterations(items, current_selected_index, initial_try_index, up) ==
    LET item == Get(items, current_selected_index) IN
    IF IsSome(item) /\ Unwrap(item).selectable THEN 1
    ELSE LET next == disk_step(current_selected_index, Len(items), up) IN
         IF next = initial_try_index THEN 1
         ELSE 1 + skip_loop_iterations(items, next, initial_try_index, up)

\* handle_disk_setup_input that moves the list index and leaves
\* disk_setup_selected_item_path as it was (the mutant of C16).
handle_disk_setup_input_keeps_path(a, key) ==
    LET s == a.ui_state
        items == IF s.current_disk_display_items = <<>> /\ IsSome(s.system_disk_info)
                 THEN build_disk_display_list(Unwrap(s.system_disk_info))
                 ELSE s.current_disk_display_items
        a1 == [a EXCEPT !.ui_state.current_disk_display_items = items]
        num_options == Len(items)
        selected == IF IsSome(s.disk_setup_list_state.selected)
                    THEN Unwrap(s.disk_setup_list_state.selected) ELSE 0
    IN IF num_options = 0 \/ key.code \notin {"Up", "Down"} THEN a1
       ELSE LET first == disk_step(selected, num_options, key.code = "Up")
                found == skip_loop(items, first, first, key.code = "Up")
            IN IF IsSome(found)
               THEN [a1 EXCEPT !.ui_state.disk_setup_list_state = ListState(found)]
               ELSE a1

\* handle_disk_setup_input whose scan stops at the end of the list instead of
\* wrapping: a row found on the other side of the cursor is not taken (the
\* mutant of C31).
handle_disk_setup_input_no_wrap(a, key) ==
    LET s == a.ui_state
        items == IF s.current_disk_display_items = <<>> /\ IsSome(s.system_disk_info)
                 THEN build_disk_display_list(Unwrap(s.system_disk_info))
                 ELSE s.current_disk_display_items
        a1 == [a EXCEPT !.ui_state.current_disk_display_items = items]
        num_options == Len(items)
        selected == IF IsSome(s.disk_setup_list_state.selected)
                    THEN Unwrap(s.disk_setup_list_state.selected) ELSE 0
    IN IF num_options = 0 \/ key.code \notin {"Up", "Down"} THEN a1
       ELSE LET first == disk_step(selected, num_options, key.code = "Up")
                found == skip_loop(items, first, first, key.code = "Up")
                wrapped == /\ IsSome(found)
                           /\ IF key.code = "Up" THEN Unwrap(found) >= selected
                                                 ELSE Unwrap(found) <= selected
            IN IF IsSome(found) /\ ~wrapped
               THEN [a1 EXCEPT !.ui_state.disk_setup_list_state = ListState(found),
                               !.ui_state.disk_setup_selected_item_path =
                                   Some(At(items, Unwrap(found)).id_path)]
               ELSE a1

handle_disk_setup_input(a, key) ==
    LET s == a.ui_state
        items == IF s.current_disk_display_items = <<>> /\ IsSome(s.system_disk_info)
                 THEN build_disk_display_list(Unwrap(s.system_disk_info))
                 ELSE s.current_disk_display_items
        a1 == [a EXCEPT !.ui_state.current_disk_display_items = items]
        num_options == Len(items)
        selected == IF IsSome(s.disk_setup_list_state.selected)
                    THEN Unwrap(s.disk_setup_list_state.selected) ELSE 0
    IN IF num_options = 0 \/ key.code \notin {"Up", "Down"} THEN a1
       ELSE LET first == disk_step(selected, num_options, key.code = "Up")
                found == skip_loop(items, first, first, key.code = "Up")
            IN IF IsSome(found)
               THEN [a1 EXCEPT !.ui_state.disk_setup_list_state = ListState(found),
                               !.ui_state.disk_setup_selected_item_path =
                                   Some(At(items, Unwrap(found)).id_path)]
               ELSE a1

\* handle_installation_input that takes characters at every step (the mutant
\* of C39).
handle_installation_input_types_everywhere(a, key) ==
    LET s == a.ui_state IN
    IF IsNone(s.installation_step) THEN a
    ELSE IF key.code = "Char" /\ Len(s.input_buffer) < MaxInput
    THEN [a EXCEPT !.ui_state.input_buffer = Append(@, key.ch)]
    ELSE CASE Unwrap(s.installation_step) = "UserSetup" ->
                IF key.code = "Backspace" /\ s.input_buffer # <<>>
                THEN [a EXCEPT !.ui_state.input_buffer = SubSeq(@, 1, Len(@) - 1)]
                ELSE a
           [] Unwrap(s.installation_step) = "DiskSetup" -> handle_disk_setup_input(a, key)
           [] OTHER -> a

handle_installation_input(a, key) ==
    LET s == a.ui_state IN
    IF IsNone(s.installation_step) THEN a
    ELSE CASE Unwrap(s.installation_step) = "UserSetup" ->
                IF key.code = "Char"
                THEN [a EXCEPT !.ui_state.input_buffer = Append(@, key.ch)]
                ELSE IF key.code = "Backspace" /\ s.input_buffer # <<>>
                THEN [a EXCEPT !.ui_state.input_buffer = SubSeq(@, 1, Len(@) - 1)]
                ELSE a
           [] Unwrap(s.installation_step) = "DiskSetup" -> handle_disk_setup_input(a, key)
           [] OTHER -> a

\* confirm_exit that also shows the ConfirmExit screen (the mutant of C20).
confirm_exit_switches_screen(a) ==
    IF IsSome(a.ui_state.active_dialog) THEN a
    ELSE [a EXCEPT !.ui_state.active_dialog = Some(YesNo("LANG_CONFIRM_TITLE", "LANG_EXIT_CONFIRM")),
                   !.ui_state.dialog_selected_option = 1,
                   !.ui_state.current_screen = "ConfirmExit"]

\* confirm_exit that opens the dialog with "Yes" selected (the mutant of C37)
confirm_exit_selects_yes(a) ==
    IF IsSome(a.ui_state.active_dialog) THEN a
    ELSE [a EXCEPT !.ui_state.active_dialog = Some(YesNo("LANG_CONFIRM_TITLE", "LANG_EXIT_CONFIRM")),
                   !.ui_state.dialog_selected_option = 0]

confirm_exit(a) ==
    IF IsSome(a.ui_state.active_dialog) THEN a
    ELSE [a EXCEPT !.ui_state.active_dialog = Some(YesNo("LANG_CONFIRM_TITLE", "LANG_EXIT_CONFIRM")),
                   !.ui_state.dialog_selected_option = 1]

\* handle_dialog_confirm that quits on "Yes" whatever the dialog's title (the mutant of C3).
handle_dialog_confirm_any_title(a) ==
    LET s == a.ui_state IN
    IF IsSome(s.active_dialog) /\ Unwrap(s.active_dialog).type = "YesNo"
    THEN IF s.dialog_selected_option = 0
         THEN [a EXCEPT !.should_quit = TRUE]
         ELSE [a EXCEPT !.ui_state.active_dialog = None]
    ELSE a

handle_dialog_confirm(a) ==
    LET s == a.ui_state IN
    IF IsSome(s.active_dialog) /\ Unwrap(s.active_dialog).type = "YesNo"
    THEN IF Unwrap(s.active_dialog).title_key = "LANG_CONFIRM_TITLE"
         THEN IF s.dialog_selected_option = 0
              THEN [a EXCEPT !.should_quit = TRUE]
              ELSE [a EXCEPT !.ui_state.active_dialog = None]
         ELSE [a EXCEPT !.ui_state.active_dialog = None]
    ELSE a

\* handle_dialog_cancel that closes YesNo dialogs only (the mutant of C40)
handle_dialog_cancel_yes_no_only(a) ==
    IF IsSome(a.ui_state.active_dialog) /\ Unwrap(a.ui_state.active_dialog).type = "YesNo"
    THEN [a EXCEPT !.ui_state.active_dialog = None]
    ELSE a

handle_dialog_cancel(a) == [a EXCEPT !.ui_state.active_dialog = None]

\* handle_theme_dialog_confirm that closes the dialog without committing the
\* selection (the mutant of C24).
handle_theme_dialog_confirm_no_commit(a) == [a EXCEPT !.ui_state.active_dialog = None]

handle_theme_dialog_confirm(a) ==
    LET s == a.ui_state IN
    IF s.active_dialog = Some(ThemeSelector) /\ s.dialog_selected_option < Len(s.themes)
    THEN [a EXCEPT !.ui_state.active_theme_index = s.dialog_selected_option,
                   !.ui_state.active_dialog = None]
    ELSE [a EXCEPT !.ui_state.active_dialog = None]

\* The match on the active dialog of handle_key_event
handle_dialog_key(a, key) ==
    LET s == a.ui_state
        len == Len(s.themes)
    IN IF Unwrap(s.active_dialog).type = "YesNo"
       THEN CASE key.code = "Left" \/ IsChar(key, {"h"}) ->
                   IF s.dialog_selected_option = 1
                   THEN [a EXCEPT !.ui_state.dialog_selected_option = 0] ELSE a
              [] key.code = "Right" \/ IsChar(key, {"l"}) ->
                   IF s.dialog_selected_option = 0
                   THEN [a EXCEPT !.ui_state.dialog_selected_option = 1] ELSE a
              [] IsChar(key, {"y", "j"}) -> [a EXCEPT !.ui_state.dialog_selected_option = 0]
              [] IsChar(key, {"n"}) -> [a EXCEPT !.ui_state.dialog_selected_option = 1]
              [] key.code = "Enter" -> handle_dialog_confirm(a)
              [] key.code \in {"Esc", "Backspace"} -> handle_dialog_cancel(a)
              [] OTHER -> a
       ELSE CASE key.code = "Up" \/ IsChar(key, {"k"}) ->
                   IF len = 0 THEN a
                   ELSE IF s.dialog_selected_option > 0
                   THEN [a EXCEPT !.ui_state.dialog_selected_option = @ - 1]
                   ELSE [a EXCEPT !.ui_state.dialog_selected_option = len - 1]
              [] key.code = "Down" \/ IsChar(key, {"j"}) ->
                   IF len = 0 THEN a
                   ELSE [a EXCEPT !.ui_state.dialog_selected_option = (@ + 1) % len]
              [] key.code = "Enter" -> handle_theme_dialog_confirm(a)
              [] key.code \in {"Esc", "Backspace"} -> handle_dialog_cancel(a)
              [] OTHER -> a

\* handle_backspace without the exception for LanguageSelect after
\* KeyboardSelect (the mutant of C33).
handle_backspace_always_falls_back(a) ==
    LET s == a.ui_state IN
    CASE s.current_screen = "SystemInstallation" -> handle_installation_previous_step(a)
      [] s.current_screen = "KeyboardSelect" -> set_current_screen(a, "LanguageSelect")
      [] s.current_screen = "MainMenu" -> set_current_screen(a, "KeyboardSelect")
      [] OTHER ->
           IF s.previous_screen # s.current_screen
           THEN set_current_screen(a, s.previous_screen)
           ELSE confirm_exit(a)

\* Global Backspace: "previous logical step or screen"
handle_backspace(a) ==
    LET s == a.ui_state IN
    CASE s.current_screen = "SystemInstallation" -> handle_installation_previous_step(a)
      [] s.current_screen = "KeyboardSelect" -> set_current_screen(a, "LanguageSelect")
      [] s.current_screen = "MainMenu" -> set_current_screen(a, "KeyboardSelect")
      [] OTHER ->
           IF s.previous_screen # s.current_screen
           THEN IF s.current_screen = "LanguageSelect" /\ s.previous_screen = "KeyboardSelect"
                THEN confirm_exit(a)
                ELSE set_current_screen(a, s.previous_screen)
           ELSE confirm_exit(a)

\* keyboards_for that always lists "de" first (the mutant of C7).
keyboards_for_de_first(lang) == <<"de", "us">>

\* "Adjust keyboard layouts based on language"
keyboards_for(lang) == IF lang = "en" THEN <<"us", "de">> ELSE <<"de", "us">>

main_menu_key(a, key) ==
    LET s == a.ui_state
        selected == selected_menu_item(s)
    IN CASE key.code = "Enter" ->
              IF IsNone(selected) THEN a
              ELSE CASE Unwrap(selected).id = "install" -> start_installation_wizard(a)
                     [] Unwrap(selected).id = "backup" ->
                          show_message(a, get_text(a.lang, "LANG_BACKUP"),
                                          get_text(a.lang, "LANG_NOT_IMPLEMENTED"))
                     [] Unwrap(selected).id = "keys" ->
                          show_message(a, get_text(a.lang, "LANG_KEYS"),
                                          get_text(a.lang, "LANG_NOT_IMPLEMENTED"))
                     [] OTHER -> a
         [] key.code \in {"Down", "Right"} -> next_menu_item(a)
         [] key.code \in {"Up", "Left"} -> previous_menu_item(a)
         [] OTHER -> a

language_select_key(a, key) ==
    LET s == a.ui_state
        lang == selected_language(s)
    IN CASE key.code = "Enter" ->
              IF IsNone(lang) THEN a
              ELSE LET a1 == [a EXCEPT !.config.current_lang = Unwrap(lang)] IN
                   IF ~set_language_ok(Unwrap(lang))
                   THEN show_error(a1, "Language Error",
                            "Failed to load language: Unsupported language: " \o Unwrap(lang))
                   ELSE [a1 EXCEPT !.lang = Unwrap(lang),
                                   !.ui_state.menu_items = create_localized_menu_items(Unwrap(lang)),
                                   !.ui_state.keyboards = keyboards_for(Unwrap(lang)),
                                   !.ui_state.selected_index = 0,
                                   !.ui_state.current_screen = "KeyboardSelect"]
         [] key.code = "Down" -> next_language(a)
         [] key.code = "Up" -> previous_language(a)
         [] OTHER -> a

keyboard_select_key(a, key) ==
    LET s == a.ui_state
        kb == selected_keyboard(s)
    IN CASE key.code = "Enter" ->
              IF IsNone(kb) THEN a
              ELSE LET a1 == [a EXCEPT !.config.keyboard = Unwrap(kb)] IN
                   IF ~a.env.set_keyboard_ok
                   THEN show_error(a1, "Keyboard Error",
                            "Failed to set keyboard layout: " \o Unwrap(kb))
                   ELSE [a1 EXCEPT !.ui_state.selected_index = 0,
                                   !.ui_state.current_screen = "MainMenu"]
         [] key.code = "Down" -> next_keyboard(a)
         [] key.code = "Up" -> previous_keyboard(a)
         [] OTHER -> a

\* The Message screen that is dismissed by Enter only (the mutant of C22).
message_key_enter_only(a, key) ==
    IF key.code = "Enter" THEN clear_message(a) ELSE a

message_key(a, key) ==
    IF key.code \in {"Enter", "Esc", "Backspace"} THEN clear_message(a) ELSE a

\* system_installation_key whose example dialog opens with the option the
\* last dialog left behind (the mutant of C38).
system_installation_key_keeps_option(a, key) ==
    LET s == a.ui_state IN
    CASE key.code = "Enter" ->
           IF IsNone(s.active_dialog) THEN handle_installation_next_step(a) ELSE a
      [] IsChar(key, {"d", "D"}) ->
           IF IsNone(s.active_dialog)
           THEN [a EXCEPT !.ui_state.active_dialog =
                              Some(YesNo("DIALOG_YESNO_EXAMPLE_TITLE", "DIALOG_YESNO_EXAMPLE_MESSAGE"))]
           ELSE a
      [] OTHER -> handle_installation_input(a, key)

system_installation_key(a, key) ==
    LET s == a.ui_state IN
    CASE key.code = "Enter" ->
           IF IsNone(s.active_dialog) THEN handle_installation_next_step(a) ELSE a
      [] IsChar(key, {"d", "D"}) ->
           IF IsNone(s.active_dialog)
           THEN [a EXCEPT !.ui_state.active_dialog =
                              Some(YesNo("DIALOG_YESNO_EXAMPLE_TITLE", "DIALOG_YESNO_EXAMPLE_MESSAGE")),
                          !.ui_state.dialog_selected_option = 0]
           ELSE a
      [] OTHER -> handle_installation_input(a, key)

\* dispatch whose Alt+T does not look at active_dialog (the mutant of C5).
dispatch_alt_t_unguarded(s, key) ==
    IF key.modifiers = "ALT" /\ IsChar(key, {"l", "L"}) /\ s.current_screen = "SystemInstallation"
    THEN "alt_l"
    ELSE IF key.modifiers = "ALT" /\ IsChar(key, {"t", "T"})
    THEN "alt_t"
    ELSE IF IsSome(s.active_dialog) THEN "dialog"
    ELSE IF key.code = "Esc" /\ s.current_screen \notin {"ConfirmExit", "Message"} THEN "esc"
    ELSE IF key.code = "Backspace" /\ s.current_screen \notin {"Message", "ConfirmExit"}
    THEN "backspace"
    ELSE s.current_screen

\* The part of handle_key_event that takes the key, in the order of the code.
dispatch(s, key) ==
    IF key.modifiers = "ALT" /\ IsChar(key, {"l", "L"}) /\ s.current_screen = "SystemInstallation"
    THEN "alt_l"
    ELSE IF key.modifiers = "ALT" /\ IsChar(key, {"t", "T"}) /\ IsNone(s.active_dialog)
    THEN "alt_t"
    ELSE IF IsSome(s.active_dialog) THEN "dialog"
    ELSE IF key.code = "Esc" /\ s.current_screen \notin {"ConfirmExit", "Message"} THEN "esc"
    ELSE IF key.code = "Backspace" /\ s.current_screen \notin {"Message", "ConfirmExit"}
    THEN "backspace"
    ELSE s.current_screen

\* handle_key_event whose Alt+T opens the theme selector on its first entry
\* (the mutant of C25).
handle_key_event_theme_from_top(a, key) ==
    LET s == a.ui_state
        d == dispatch(s, key)
    IN CASE d = "alt_l" -> [a EXCEPT !.ui_state.show_log_panel = ~@]
         [] d = "alt_t" -> [a EXCEPT !.ui_state.active_dialog = Some(ThemeSelector),
                                     !.ui_state.dialog_selected_option = 0]
         [] d = "dialog" -> handle_dialog_key(a, key)
         [] d = "esc" -> confirm_exit(a)
         [] d = "backspace" -> handle_backspace(a)
         [] d = "MainMenu" -> main_menu_key(a, key)
         [] d = "LanguageSelect" -> language_select_key(a, key)
         [] d = "KeyboardSelect" -> keyboard_select_key(a, key)
         [] d = "Message" -> message_key(a, key)
         [] d = "SystemInstallation" -> system_installation_key(a, key)
         [] OTHER -> a

handle_key_event(a, key) ==
    LET s == a.ui_state
        d == dispatch(s, key)
    IN CASE d = "alt_l" -> [a EXCEPT !.ui_state.show_log_panel = ~@]
         [] d = "alt_t" -> [a EXCEPT !.ui_state.active_dialog = Some(ThemeSelector),
                                     !.ui_state.dialog_selected_option = s.active_theme_index]
         [] d = "dialog" -> handle_dialog_key(a, key)
         [] d = "esc" -> confirm_exit(a)
         [] d = "backspace" -> handle_backspace(a)
         [] d = "MainMenu" -> main_menu_key(a, key)
         [] d = "LanguageSelect" -> language_select_key(a, key)
         [] d = "KeyboardSelect" -> keyboard_select_key(a, key)
         [] d = "Message" -> message_key(a, key)
         [] d = "SystemInstallation" -> system_installation_key(a, key)
         [] OTHER -> a   \* Screen::ConfirmExit: nothing

----------------------------------------------------------------------------
(* App::new and the event loop *)

\* The key events of the model
KeyCodes == {"Enter", "Esc", "Backspace", "Up", "Down", "Left", "Right", "Tab"}
Chars == {"d", "l", "n", "t", "y"}
Modifiers == {"NONE", "ALT"}
Keys ==
    {[code |-> c, ch |-> "", modifiers |-> m] : c \in KeyCodes, m \in Modifiers}
    \cup {[code |-> "Char", ch |-> c, modifiers |-> m] : c \in Chars, m \in Modifiers}

Key(code) == [code |-> code, ch |-> "", modifiers |-> "NONE"]
CharKey(ch) == [code |-> "Char", ch |-> ch, modifiers |-> "NONE"]
AltKey(ch) == [code |-> "Char", ch |-> ch, modifiers |-> "ALT"]

\* Config::default(), with either supported language
Configs == {[current_lang |-> l, keyboard |-> "de"] : l \in SupportedLanguages}

\* The snapshot the disk provider hands to App::new.  The provider is a stub
\* (create_dummy_system_disk_info: three disks, two volume groups); the key
\* handlers run here on its first disk, whose rows have a header, two
\* selectable partitions and two rows that cannot be selected.
Snapshots == {SystemDiskInfo(<<dummy_sda>>, <<>>)}

App_new(cfg, snapshot) ==
    LET s0 == UiState_new(create_localized_menu_items(cfg.current_lang))
        s1 == [s0 EXCEPT !.system_disk_info = Some(snapshot),
                         !.disk_setup_list_state =
                             IF snapshot.disks # <<>> THEN ListState(Some(0)) ELSE @,
                         !.keyboards = keyboards_for(cfg.current_lang)]
    IN s1

\* App::run has not been entered: a terminal with room for the whole layout,
\* nothing drawn yet
BeforeRun ==
    /\ terminal = [description_rows |-> DescriptionBoxHeight, frame |-> None]
    /\ last_tick_elapsed = FALSE
    /\ pc = "start"

Init ==
    \E cfg \in Configs, snapshot \in Snapshots :
        /\ config = cfg
        /\ CURRENT_LANGUAGE = cfg.current_lang
        /\ ui_state = App_new(cfg, snapshot)
        /\ should_quit = FALSE
        /\ panicked = FALSE
        /\ BeforeRun

\* What the outside world can decide while `key` is handled
Envs(key) ==
    [set_keyboard_ok :
        IF ui_state.current_screen = "KeyboardSelect" /\ key.code = "Enter" THEN BOOLEAN ELSE {TRUE},
     overflow_checks :
        IF ui_state.current_screen = "SystemInstallation" /\ ui_state.installation_tasks = <<>>
        THEN BOOLEAN ELSE {TRUE}]

\* The model stops typing when input_buffer holds MaxInput characters.
WithinBounds(key) ==
    ~ ( /\ dispatch(ui_state, key) = "SystemInstallation"
        /\ key.code = "Char" /\ key.ch \notin {"d", "D"}
        /\ installation_step_requires_text_input(ui_state)
        /\ Len(ui_state.input_buffer) >= MaxInput )

\* The state after the handler returned `a`
Becomes(a) ==
    /\ ui_state' = a.ui_state
    /\ config' = a.config
    /\ should_quit' = a.should_quit
    /\ panicked' = a.panicked
    /\ CURRENT_LANGUAGE' = a.lang

\* App::run: one iteration of `while !self.should_quit` that reads a key press
KeyPress(key) ==
    /\ ~should_quit
    /\ ~panicked
    /\ WithinBounds(key)
    /\ \E env \in Envs(key) : Becomes(handle_key_event(App(env), key))
    /\ UNCHANGED run_vars

AltShortcut == \E key \in Keys :
    dispatch(ui_state, key) \in {"alt_l", "alt_t"} /\ KeyPress(key)
DialogKey == \E key \in Keys : dispatch(ui_state, key) = "dialog" /\ KeyPress(key)
GlobalEsc == \E key \in Keys : dispatch(ui_state, key) = "esc" /\ KeyPress(key)
GlobalBackspace == \E key \in Keys : dispatch(ui_state, key) = "backspace" /\ KeyPress(key)
MainMenuKey == \E key \in Keys : dispatch(ui_state, key) = "MainMenu" /\ KeyPress(key)
LanguageSelectKey == \E key \in Keys : dispatch(ui_state, key) = "LanguageSelect" /\ KeyPress(key)
KeyboardSelectKey == \E key \in Keys : dispatch(ui_state, key) = "KeyboardSelect" /\ KeyPress(key)
MessageKey == \E key \in Keys : dispatch(ui_state, key) = "Message" /\ KeyPress(key)
SystemInstallationKey ==
    \E key \in Keys : dispatch(ui_state, key) = "SystemInstallation" /\ KeyPress(key)

Next ==
    \/ AltShortcut
    \/ DialogKey
    \/ GlobalEsc
    \/ GlobalBackspace
    \/ MainMenuKey
    \/ LanguageSelectKey
    \/ KeyboardSelectKey
    \/ MessageKey
    \/ SystemInstallationKey

Spec == Init /\ [][Next]_vars

----------------------------------------------------------------------------
(* The cursor of DiskSetup on its own: handle_installation_input for Up and *)
(* Down, over display lists built from a family of disk snapshots.          *)

\* The snapshots of this family have up to MaxDisks disks.
MaxDisks == 2

DiskPaths == <<"/dev/sda", "/dev/sdb", "/dev/sdc", "/dev/sdd">>

\* Partition layouts: none; one file system; an open LUKS container holding
\* an LVM physical volume; a file system and unallocated space.
DiskKinds == {"blank", "fs", "luks", "fs_free"}

DiskOfKind(kind, path) ==
    PhysicalDisk(path,
        CASE kind = "blank" -> <<>>
          [] kind = "fs" -> << Partition(path \o "1", Some(FileSystem)) >>
          [] kind = "luks" ->
                << Partition(path \o "1",
                       Some(LuksContainer("luks-uuid", Some("cr_lvm"),
                                Some(LvmPhysicalVolume("lvm-pv-uuid"))))) >>
          [] kind = "fs_free" ->
                << Partition(path \o "1", Some(FileSystem)),
                   Partition(path \o "2", Some(Unknown)) >>)

VolumeGroupLists == { <<>>, << LvmVolumeGroup("vg_data", <<>>) >>, << dummy_vg_data >> }

NavSnapshots ==
    { SystemDiskInfo([i \in 1..n |-> DiskOfKind(kinds[i], DiskPaths[i])], vgs) :
        <<n, kinds, vgs>> \in
            UNION { {n} \X [1..n -> DiskKinds] \X VolumeGroupLists : n \in 0..MaxDisks } }

\* The keys of `keys` handled one after the other
RECURSIVE press_keys(_, _)
press_keys(a, keys) ==
    IF keys = <<>> THEN a
    ELSE press_keys(handle_key_event(a, Head(keys)), Tail(keys))

\* The wizard as it enters DiskSetup on a snapshot: App::new, then Enter on
\* LanguageSelect, KeyboardSelect, "install" and Welcome.
AtDiskSetup(cfg, snapshot) ==
    press_keys([ui_state |-> App_new(cfg, snapshot), config |-> cfg,
                should_quit |-> FALSE, panicked |-> FALSE, lang |-> cfg.current_lang,
                env |-> [set_keyboard_ok |-> TRUE, overflow_checks |-> TRUE]],
               << Key("Enter"), Key("Enter"), Key("Enter"), Key("Enter") >>)

DiskNavInit ==
    \E snapshot \in NavSnapshots :
        LET a == AtDiskSetup([current_lang |-> "de", keyboard |-> "de"], snapshot) IN
        /\ ui_state = a.ui_state
        /\ config = a.config
        /\ CURRENT_LANGUAGE = a.lang
        /\ should_quit = a.should_quit
        /\ panicked = a.panicked
        /\ BeforeRun

DiskUp == KeyPress(Key("Up"))
DiskDown == KeyPress(Key("Down"))

DiskNavNext == DiskUp \/ DiskDown

DiskNavSpec == DiskNavInit /\ [][DiskNavNext]_vars

----------------------------------------------------------------------------
(* App::run: the loop around the handlers.  The control is before the first *)
(* draw ("start"), at the loop condition and the poll ("poll"), at the tick *)
(* check ("tick"), or has left run with Ok ("done") or with the error of a  *)
(* poll, read or draw ("failed").  Time is the outside world's: while the   *)
(* loop waits for an event tick_rate may run out.                           *)

\* The key presses of the loop
RunKeys == {Key("Enter"), Key("Esc"), Key("Backspace"), Key("Left")}

\* The heights the layout can give the task description box
DescriptionRows == {DescriptionBoxHeight - k : k \in 0..MaxShrink}

RunInit == Init

\* terminal.draw(|f| draw_ui(f, &mut self.ui_state)) on a terminal of that size
Draw(rows) ==
    /\ ui_state' = draw_ui(ui_state, CURRENT_LANGUAGE, rows)
    /\ terminal' = [description_rows |-> rows, frame |-> Some(Frame(ui_state))]

\* last_tick.elapsed() grows while event::poll waits
TimePasses ==
    last_tick_elapsed' \in (IF last_tick_elapsed THEN {TRUE} ELSE BOOLEAN)

InLoop == pc = "poll" /\ ~should_quit /\ ~panicked

FirstDraw ==
    /\ pc = "start"
    /\ Draw(terminal.description_rows)
    /\ pc' = "poll"
    /\ UNCHANGED <<config, should_quit, panicked, CURRENT_LANGUAGE, last_tick_elapsed>>

\* event::poll ran into its timeout
PollTimeout ==
    /\ InLoop
    /\ last_tick_elapsed' = TRUE
    /\ pc' = "tick"
    /\ UNCHANGED <<ui_state, config, should_quit, panicked, CURRENT_LANGUAGE, terminal>>

\* Event::Key of kind Press
ReadKeyPress ==
    /\ InLoop
    /\ \E key \in RunKeys :
        /\ WithinBounds(key)
        /\ \E env \in Envs(key) : Becomes(handle_key_event(App(env), key))
    /\ TimePasses
    /\ pc' = "tick"
    /\ UNCHANGED terminal

\* FocusGained, FocusLost, Mouse, Paste, and the keys that are not presses
ReadIgnored ==
    /\ InLoop
    /\ TimePasses
    /\ pc' = "tick"
    /\ UNCHANGED <<ui_state, config, should_quit, panicked, CURRENT_LANGUAGE, terminal>>

\* Event::Resize
ReadResize ==
    /\ InLoop
    /\ \E rows \in DescriptionRows : Draw(rows)
    /\ TimePasses
    /\ pc' = "tick"
    /\ UNCHANGED <<config, should_quit, panicked, CURRENT_LANGUAGE>>

\* if self.last_tick.elapsed() >= self.tick_rate
TickDraw ==
    /\ pc = "tick" /\ ~panicked
    /\ last_tick_elapsed
    /\ last_tick_elapsed' = FALSE
    /\ Draw(terminal.description_rows)
    /\ pc' = "poll"
    /\ UNCHANGED <<config, should_quit, panicked, CURRENT_LANGUAGE>>

TickSkip ==
    /\ pc = "tick" /\ ~panicked
    /\ ~last_tick_elapsed
    /\ pc' = "poll"
    /\ UNCHANGED <<ui_state, config, should_quit, panicked, CURRENT_LANGUAGE,
                   terminal, last_tick_elapsed>>

\* while !self.should_quit ... Ok(())
Return ==
    /\ pc = "poll" /\ ~panicked
    /\ should_quit
    /\ pc' = "done"
    /\ UNCHANGED <<ui_state, config, should_quit, panicked, CURRENT_LANGUAGE,
                   terminal, last_tick_elapsed>>

\* The `?` of a draw, of event::poll and of event::read
IoError ==
    /\ \/ pc = "start"
       \/ InLoop
       \/ pc = "tick" /\ ~panicked /\ last_tick_elapsed
    /\ pc' = "failed"
    /\ UNCHANGED <<ui_state, config, should_quit, panicked, CURRENT_LANGUAGE,
                   terminal, last_tick_elapsed>>

RunNext ==
    \/ FirstDraw
    \/ PollTimeout
    \/ ReadKeyPress
    \/ ReadIgnored
    \/ ReadResize
    \/ TickDraw
    \/ TickSkip
    \/ Return
    \/ IoError

RunSpec == RunInit /\ [][RunNext]_vars

----------------------------------------------------------------------------
(* update_active_task_status on its own, for task lists, indices and steps  *)
(* the wizard itself never produces.                                        *)

\* The task lists of this family have up to MaxTasks tasks.
MaxTasks == 2

RepairSteps == {"Welcome", "DiskSetup", "Summary"}
RepairStatuses == {"Pending", "Active", "Completed"}

RepairTask(step, status) == InstallationTaskItem(step, step, step, status)

RECURSIVE TaskListsOfLen(_)
TaskListsOfLen(n) ==
    IF n = 0 THEN {<<>>}
    ELSE {Append(tasks, RepairTask(step, status)) :
              tasks \in TaskListsOfLen(n - 1), step \in RepairSteps, status \in RepairStatuses}

TaskLists == UNION {TaskListsOfLen(n) : n \in 0..MaxTasks}

\* A wizard state with any task list, any index (in the list or past its
\* end) and any installation_step
RepairInit ==
    \E tasks \in TaskLists, index \in 0..(MaxTasks + 1),
       step \in {None} \cup {Some(st) : st \in RepairSteps} :
        LET cfg == [current_lang |-> "de", keyboard |-> "de"]
            s0 == App_new(cfg, SystemDiskInfo(<<dummy_sda>>, <<>>))
        IN /\ ui_state = [s0 EXCEPT !.current_screen = "SystemInstallation",
                                    !.installation_tasks = tasks,
                                    !.current_installation_task_index = index,
                                    !.installation_step = step]
           /\ config = cfg
           /\ CURRENT_LANGUAGE = cfg.current_lang
           /\ should_quit = FALSE
           /\ panicked = FALSE
           /\ BeforeRun

RepairEnv == [set_keyboard_ok |-> TRUE, overflow_checks |-> TRUE]

\* One call of update_active_task_status
RepairPass ==
    /\ ~panicked
    /\ Becomes(update_active_task_status(App(RepairEnv)))
    /\ UNCHANGED run_vars

RepairNext == RepairPass

RepairSpec == RepairInit /\ [][RepairNext]_vars

----------------------------------------------------------------------------
(* Vocabulary of the claims *)


\* The event loop is still reading events.
Running == ~should_quit /\ ~panicked

\* The App after handle_key_event(key), for what the outside world decides.
After(key, env) == handle_key_event(App(env), key)

NoDialog == IsNone(ui_state.active_dialog)
OnScreen(screen) == ui_state.current_screen = screen

\* The indices (from 0) of the tasks with the given status
TasksWith(tasks, status) == {i \in 0..(Len(tasks) - 1) : At(tasks, i).status = status}

\* The current task exists and is the task of installation_step.
IndexMatchesStep(s) ==
    /\ s.current_installation_task_index < Len(s.installation_tasks)
    /\ Some(At(s.installation_tasks, s.current_installation_task_index).step) = s.installation_step

\* The fresh task list of the wizard, as a list of <<step, status>>
StepsAndStatus(tasks) == [i \in 1..Len(tasks) |-> <<tasks[i].step, tasks[i].status>>]

----------------------------------------------------------------------------
(* C1 *)

\* C1 as stated: whenever the task list is non-empty, exactly one task is
\* Active, it is the task at current_installation_task_index, and its step is
\* installation_step.
C1_ExactlyOneActive ==
    ui_state.installation_tasks # <<>> =>
        /\ TasksWith(ui_state.installation_tasks, "Active")
               = {ui_state.current_installation_task_index}
        /\ IndexMatchesStep(ui_state)

\* C1 amended: whenever the task list is non-empty, the task at
\* current_installation_task_index is the task of installation_step and no
\* other task is Active; that task is Active, except that the last task is
\* Completed once Enter was pressed on it (then no task is Active).
C1_ActiveOrLastCompleted ==
    ui_state.installation_tasks # <<>> =>
        LET tasks == ui_state.installation_tasks
            idx == ui_state.current_installation_task_index
        IN /\ IndexMatchesStep(ui_state)
           /\ TasksWith(tasks, "Active") \subseteq {idx}
           /\ \/ At(tasks, idx).status = "Active"
              \/ idx = Len(tasks) - 1 /\ At(tasks, idx).status = "Completed"

\* Enter was pressed on every task: Summary is Completed and no task is Active.
C1_Witness ==
    /\ OnScreen("SystemInstallation")
    /\ StepsAndStatus(ui_state.installation_tasks)
         = << <<"Welcome", "Completed">>, <<"DiskSetup", "Completed">>,
              <<"UserSetup", "Completed">>, <<"Summary", "Completed">> >>
    /\ ui_state.current_installation_task_index = 3

----------------------------------------------------------------------------
(* C2 *)

\* C2: whenever the task list is non-empty, the task at
\* current_installation_task_index exists and its step is installation_step.
C2_IndexMatchesStep ==
    ui_state.installation_tasks # <<>> => IndexMatchesStep(ui_state)

\* The wizard went forward to Summary.
C2_Witness ==
    /\ ui_state.installation_tasks # <<>>
    /\ ui_state.current_installation_task_index = 3
    /\ ui_state.installation_step = Some("Summary")

----------------------------------------------------------------------------
(* C3 *)

IsExitDialog(d) ==
    IsSome(d) /\ Unwrap(d).type = "YesNo" /\ Unwrap(d).title_key = "LANG_CONFIRM_TITLE"
IsYesNo(d) == IsSome(d) /\ Unwrap(d).type = "YesNo"

\* C3: a key event sets the quit flag exactly when it is Enter on the active
\* exit-confirmation dialog with option 0 ("Yes") selected; Enter with option 1
\* does not set it, Enter on any other YesNo dialog closes the dialog without
\* setting it, and no other key on any screen or dialog sets it.
C3_QuitOnlyByConfirmedExit ==
    Running =>
        \A key \in Keys : \A env \in Envs(key) :
            LET r == After(key, env)
                d == ui_state.active_dialog
            IN /\ r.should_quit <=>
                      /\ key.code = "Enter"
                      /\ IsExitDialog(d)
                      /\ ui_state.dialog_selected_option = 0
               /\ (key.code = "Enter" /\ IsYesNo(d) /\ ~IsExitDialog(d))
                      => (IsNone(r.ui_state.active_dialog) /\ ~r.should_quit)
               /\ (key.code = "Enter" /\ IsExitDialog(d) /\ ui_state.dialog_selected_option = 1)
                      => (IsNone(r.ui_state.active_dialog) /\ ~r.should_quit)

\* The exit dialog was confirmed with "Yes".
C3_Witness ==
    /\ should_quit
    /\ IsExitDialog(ui_state.active_dialog)
    /\ ui_state.dialog_selected_option = 0

----------------------------------------------------------------------------
(* C4 *)

\* C4: while a dialog is active a key event changes nothing but the dialog's
\* selection, the active dialog, the active theme index and the quit flag.
C4_DialogOwnsAllInput ==
    (Running /\ ~NoDialog) =>
        \A key \in Keys : \A env \in Envs(key) :
            LET r == After(key, env) IN
            /\ [r.ui_state EXCEPT !.dialog_selected_option = ui_state.dialog_selected_option,
                                  !.active_dialog = ui_state.active_dialog,
                                  !.active_theme_index = ui_state.active_theme_index]
                   = ui_state
            /\ r.config = config
            /\ r.lang = CURRENT_LANGUAGE
            /\ ~r.panicked

----------------------------------------------------------------------------
(* C5 *)

\* C5: with a dialog open, a key event leaves that dialog open or closes it
\* and never puts another dialog in its place; Alt+T and 'd' leave the open
\* dialog as it is, and Esc and Backspace close it instead of opening the exit
\* confirmation.
C5_NoDialogOverDialog ==
    (Running /\ ~NoDialog) =>
        \A key \in Keys : \A env \in Envs(key) :
            LET r == After(key, env) IN
            /\ r.ui_state.active_dialog \in {None, ui_state.active_dialog}
            /\ (\/ key.modifiers = "ALT" /\ IsChar(key, {"t", "T"})
                \/ IsChar(key, {"d", "D"}))
                   => r.ui_state.active_dialog = ui_state.active_dialog
            /\ key.code \in {"Esc", "Backspace"} => IsNone(r.ui_state.active_dialog)

\* The exit dialog is open in the wizard, where 'd' opens a dialog, and a key
\* has moved its selection to "Yes".
C5_Witness ==
    /\ IsExitDialog(ui_state.active_dialog)
    /\ ui_state.dialog_selected_option = 0
    /\ OnScreen("SystemInstallation")
    /\ ~should_quit

----------------------------------------------------------------------------
(* C6 *)

\* C6: on the main menu selected_index is in [0, len); next_menu_item (Down,
\* Right) goes from len-1 to 0 and otherwise one up, previous_menu_item (Up,
\* Left) goes from 0 to len-1 and otherwise one down.
C6_MenuCursorWraps ==
    (Running /\ OnScreen("MainMenu")) =>
        LET len == Len(ui_state.menu_items)
            i == ui_state.selected_index
        IN /\ len > 0
           /\ i \in 0..(len - 1)
           /\ \A env \in Envs(Key("Down")) :
                /\ next_menu_item(App(env)).ui_state.selected_index
                       = (IF i = len - 1 THEN 0 ELSE i + 1)
                /\ previous_menu_item(App(env)).ui_state.selected_index
                       = (IF i = 0 THEN len - 1 ELSE i - 1)
           /\ NoDialog =>
                \A key \in Keys : \A env \in Envs(key) :
                    /\ key.code \in {"Down", "Right"} =>
                           After(key, env).ui_state = next_menu_item(App(env)).ui_state
                    /\ key.code \in {"Up", "Left"} =>
                           After(key, env).ui_state = previous_menu_item(App(env)).ui_state

\* The cursor is on the last of the three menu items.
C6_Witness ==
    /\ OnScreen("MainMenu")
    /\ Len(ui_state.menu_items) = 3
    /\ ui_state.selected_index = 2

----------------------------------------------------------------------------
(* C7 *)

\* The state App::new leaves
IsInitialState ==
    /\ \E snapshot \in Snapshots : ui_state = App_new(config, snapshot)
    /\ CURRENT_LANGUAGE = config.current_lang
    /\ Running

\* C7: Enter on LanguageSelect, with no dialog, on a language L that
\* set_language accepts makes L the language, lists L's native keyboard first
\* ([us, de] for en, else [de, us]), shows KeyboardSelect and puts the cursor
\* on 0; from the initial state Down then Enter gives en, [us, de],
\* KeyboardSelect, cursor 0.
C7_LanguageEnter ==
    /\ (Running /\ OnScreen("LanguageSelect") /\ NoDialog
            /\ IsSome(selected_language(ui_state))
            /\ set_language_ok(Unwrap(selected_language(ui_state)))) =>
        \A key \in Keys : \A env \in Envs(key) :
            key.code = "Enter" =>
                LET r == After(key, env)
                    L == Unwrap(selected_language(ui_state))
                IN /\ r.lang = L
                   /\ r.config.current_lang = L
                   /\ r.ui_state.keyboards = (IF L = "en" THEN <<"us", "de">> ELSE <<"de", "us">>)
                   /\ r.ui_state.current_screen = "KeyboardSelect"
                   /\ r.ui_state.selected_index = 0
    /\ IsInitialState =>
        \A env \in Envs(Key("Down")) :
            LET r == handle_key_event(After(Key("Down"), env), Key("Enter")) IN
            /\ ui_state.languages = <<"de", "en">>
            /\ r.lang = "en"
            /\ r.ui_state.keyboards = <<"us", "de">>
            /\ r.ui_state.current_screen = "KeyboardSelect"
            /\ r.ui_state.selected_index = 0

\* English was chosen on LanguageSelect.
C7_Witness ==
    /\ OnScreen("KeyboardSelect")
    /\ CURRENT_LANGUAGE = "en"
    /\ config.current_lang = "en"
    /\ ui_state.keyboards = <<"us", "de">>
    /\ ui_state.selected_index = 0

----------------------------------------------------------------------------
(* C8 *)

\* C8: when Enter on LanguageSelect or KeyboardSelect fails, the Message
\* screen is shown, previous_screen is the screen the key was pressed on,
\* dismissing the message returns there, and nothing else changes: the
\* cursor, the lists, the menu items and the configured language and keyboard
\* are as before the key press.
C8_FailureChangesNothingElse ==
    (Running /\ NoDialog) =>
        \A env \in Envs(Key("Enter")) :
            LET r == After(Key("Enter"), env)
                origin == ui_state.current_screen
                failed ==
                    \/ /\ origin = "LanguageSelect"
                       /\ IsSome(selected_language(ui_state))
                       /\ ~set_language_ok(Unwrap(selected_language(ui_state)))
                    \/ /\ origin = "KeyboardSelect"
                       /\ IsSome(selected_keyboard(ui_state))
                       /\ ~env.set_keyboard_ok
            IN failed =>
                /\ r.ui_state.current_screen = "Message"
                /\ IsSome(r.ui_state.message)
                /\ r.ui_state.previous_screen = origin
                /\ clear_message(r).ui_state.current_screen = origin
                /\ [r.ui_state EXCEPT !.current_screen = origin,
                                      !.previous_screen = ui_state.previous_screen,
                                      !.message = ui_state.message]
                       = ui_state
                /\ r.config = config
                /\ r.lang = CURRENT_LANGUAGE

----------------------------------------------------------------------------
(* C9 *)

FreshTasks ==
    << <<"Welcome", "Active">>, <<"DiskSetup", "Pending">>,
       <<"UserSetup", "Pending">>, <<"Summary", "Pending">> >>

\* C9: Enter on MainMenu with "install" selected starts a fresh wizard: the
\* tasks are Welcome (Active), DiskSetup, UserSetup, Summary (Pending), the
\* task index is 0, installation_step is Welcome, the task list widget selects
\* task 0 and the screen is SystemInstallation.
C9_InstallStartsFreshWizard ==
    (Running /\ OnScreen("MainMenu") /\ NoDialog
        /\ IsSome(selected_menu_item(ui_state))
        /\ Unwrap(selected_menu_item(ui_state)).id = "install") =>
        \A key \in Keys : \A env \in Envs(key) :
            key.code = "Enter" =>
                LET r == After(key, env).ui_state IN
                /\ StepsAndStatus(r.installation_tasks) = FreshTasks
                /\ r.current_installation_task_index = 0
                /\ r.installation_step = Some("Welcome")
                /\ r.installation_task_list_state.selected = Some(0)
                /\ r.current_screen = "SystemInstallation"

\* The wizard was started from the main menu after DiskSetup had been visited.
C9_Witness ==
    /\ OnScreen("SystemInstallation")
    /\ ui_state.previous_screen = "MainMenu"
    /\ StepsAndStatus(ui_state.installation_tasks) = FreshTasks
    /\ ui_state.current_installation_task_index = 0
    /\ ui_state.current_disk_display_items # <<>>

----------------------------------------------------------------------------
(* C10 *)

\* C10: on SystemInstallation with no dialog and the task index i not the
\* last, Enter marks task i Completed, moves the index to i+1, sets
\* installation_step to the step of task i+1 and makes task i+1 the Active
\* task; the screen stays SystemInstallation.
C10_EnterAdvances ==
    (Running /\ OnScreen("SystemInstallation") /\ NoDialog
        /\ ui_state.installation_tasks # <<>>
        /\ ui_state.current_installation_task_index < Len(ui_state.installation_tasks) - 1) =>
        \A key \in Keys : \A env \in Envs(key) :
            key.code = "Enter" =>
                LET r == After(key, env).ui_state
                    i == ui_state.current_installation_task_index
                IN /\ At(r.installation_tasks, i).status = "Completed"
                   /\ r.current_installation_task_index = i + 1
                   /\ r.installation_step = Some(At(ui_state.installation_tasks, i + 1).step)
                   /\ TasksWith(r.installation_tasks, "Active") = {i + 1}
                   /\ r.current_screen = "SystemInstallation"

\* Enter was pressed on Welcome: DiskSetup is the current, Active task.
C10_Witness ==
    /\ OnScreen("SystemInstallation")
    /\ ui_state.current_installation_task_index = 1
    /\ ui_state.installation_step = Some("DiskSetup")
    /\ At(ui_state.installation_tasks, 0).status = "Completed"
    /\ At(ui_state.installation_tasks, 1).status = "Active"

----------------------------------------------------------------------------
(* C11 *)

\* The wizard is shown, no dialog is open and the current task is the last one.
OnLastTask ==
    /\ OnScreen("SystemInstallation") /\ NoDialog
    /\ ui_state.installation_tasks # <<>>
    /\ ui_state.current_installation_task_index = Len(ui_state.installation_tasks) - 1

\* C11: on SystemInstallation with the current task the last one, Enter marks
\* that task Completed and changes nothing else (task index, installation_step
\* and current_screen stay), and a further Enter leaves the state exactly as
\* it was after the first.
C11_LastTaskEnterStays ==
    (Running /\ OnLastTask) =>
        \A env \in Envs(Key("Enter")) :
            LET r == After(Key("Enter"), env)
                i == ui_state.current_installation_task_index
            IN /\ At(r.ui_state.installation_tasks, i).status = "Completed"
               /\ r.ui_state.current_installation_task_index = i
               /\ r.ui_state.installation_step = ui_state.installation_step
               /\ r.ui_state.current_screen = "SystemInstallation"
               /\ r.ui_state =
                      [ui_state EXCEPT !.installation_tasks =
                          set_status_if_some(@, i, "Completed")]
               /\ ~r.should_quit /\ ~r.panicked
               /\ handle_key_event(r, Key("Enter")) = r
               /\ handle_key_event(handle_key_event(r, Key("Enter")), Key("Enter")) = r

\* Enter was pressed on Summary, the last task.
C11_Witness ==
    /\ OnLastTask
    /\ ui_state.installation_step = Some("Summary")
    /\ At(ui_state.installation_tasks, 3).status = "Completed"

----------------------------------------------------------------------------
(* C12 *)

\* C12: on SystemInstallation with no dialog and task index i > 0, Backspace
\* marks task i Pending, moves the index to i-1, marks task i-1 Active, sets
\* installation_step to the step of task i-1, selects task i-1 in the task
\* list widget and clears input_buffer; the screen stays SystemInstallation.
C12_BackspaceStepsBack ==
    (Running /\ OnScreen("SystemInstallation") /\ NoDialog
        /\ ui_state.current_installation_task_index > 0) =>
        \A env \in Envs(Key("Backspace")) :
            LET r == After(Key("Backspace"), env).ui_state
                i == ui_state.current_installation_task_index
            IN /\ At(r.installation_tasks, i).status = "Pending"
               /\ r.current_installation_task_index = i - 1
               /\ At(r.installation_tasks, i - 1).status = "Active"
               /\ r.installation_step = Some(At(ui_state.installation_tasks, i - 1).step)
               /\ r.installation_task_list_state.selected = Some(i - 1)
               /\ r.input_buffer = <<>>
               /\ r.current_screen = "SystemInstallation"

\* Backspace was pressed on UserSetup: the task list widget selects DiskSetup,
\* which only the step back does.
C12_Witness ==
    /\ OnScreen("SystemInstallation")
    /\ ui_state.current_installation_task_index = 1
    /\ ui_state.installation_task_list_state.selected = Some(1)
    /\ At(ui_state.installation_tasks, 2).status = "Pending"
    /\ At(ui_state.installation_tasks, 1).status = "Active"
    /\ ui_state.input_buffer = <<>>

----------------------------------------------------------------------------
(* C13 *)

\* C13: on SystemInstallation at task index 0 with no dialog, Backspace exits
\* the wizard: the screen becomes MainMenu, installation_step none and the
\* task list empty.
C13_BackspaceOnWelcomeExits ==
    (Running /\ OnScreen("SystemInstallation") /\ NoDialog
        /\ ui_state.current_installation_task_index = 0) =>
        \A env \in Envs(Key("Backspace")) :
            LET r == After(Key("Backspace"), env).ui_state IN
            /\ r.current_screen = "MainMenu"
            /\ r.installation_step = None
            /\ r.installation_tasks = <<>>

\* The wizard was left from Welcome.
C13_Witness ==
    /\ OnScreen("MainMenu")
    /\ ui_state.previous_screen = "SystemInstallation"
    /\ ui_state.installation_step = None
    /\ ui_state.installation_tasks = <<>>
    /\ ui_state.current_disk_display_items # <<>>

----------------------------------------------------------------------------
(* C14 *)

\* C14: in every reachable state every task after the current index is
\* Pending, every task before it is Completed or Pending, and no task is
\* Failed.
C14_TaskOrder ==
    LET tasks == ui_state.installation_tasks
        idx == ui_state.current_installation_task_index
    IN \A i \in 0..(Len(tasks) - 1) :
        /\ i > idx => At(tasks, i).status = "Pending"
        /\ i < idx => At(tasks, i).status \in {"Completed", "Pending"}
        /\ At(tasks, i).status # "Failed"

\* The wizard went forward to UserSetup and one step back.
C14_Witness ==
    /\ ui_state.current_installation_task_index = 1
    /\ ui_state.installation_task_list_state.selected = Some(1)
    /\ StepsAndStatus(ui_state.installation_tasks) =
           << <<"Welcome", "Completed">>, <<"DiskSetup", "Active">>,
              <<"UserSetup", "Pending">>, <<"Summary", "Pending">> >>

----------------------------------------------------------------------------
(* C15 *)

\* The indices (from 0) of the rows of a display list that can be selected
SelectableRows(items) == {i \in 0..(Len(items) - 1) : At(items, i).selectable}

\* Enter is about to move the wizard into DiskSetup.
BeforeDiskSetup ==
    /\ OnScreen("SystemInstallation") /\ NoDialog
    /\ ui_state.current_installation_task_index + 1 < Len(ui_state.installation_tasks)
    /\ At(ui_state.installation_tasks,
          ui_state.current_installation_task_index + 1).step = "DiskSetup"

\* C15: when a next-step transition enters DiskSetup, the display list is
\* rebuilt from the disk snapshot and the cursor (list index and selected
\* id_path) is on the first selectable row of that list, not on a row that
\* cannot be selected.
C15_DiskSetupEntryOnFirstSelectable ==
    (Running /\ BeforeDiskSetup /\ IsSome(ui_state.system_disk_info)) =>
        \A env \in Envs(Key("Enter")) :
            LET r == After(Key("Enter"), env).ui_state
                items == build_disk_display_list(Unwrap(ui_state.system_disk_info))
            IN /\ r.installation_step = Some("DiskSetup")
               /\ r.current_disk_display_items = items
               /\ SelectableRows(items) # {} =>
                    \E first \in SelectableRows(items) :
                        /\ \A i \in SelectableRows(items) : first <= i
                        /\ r.disk_setup_list_state.selected = Some(first)
                        /\ r.disk_setup_selected_item_path = Some(At(items, first).id_path)

----------------------------------------------------------------------------
(* C16 *)

\* The wizard is on DiskSetup and no dialog is open.
InDiskSetup ==
    /\ OnScreen("SystemInstallation") /\ NoDialog
    /\ ui_state.installation_step = Some("DiskSetup")

\* The row the list widget points at
DiskCursor ==
    IF IsSome(ui_state.disk_setup_list_state.selected)
    THEN Unwrap(ui_state.disk_setup_list_state.selected) ELSE 0

\* The row k places after (before, for up) row `from`, in cyclic order
CyclicRow(items, from, k, up) ==
    IF up THEN (from + Len(items) - k) % Len(items) ELSE (from + k) % Len(items)

\* The nearest selectable row after (before) row `from` in cyclic order; the
\* row `from` itself is the farthest.
NearestSelectable(items, from, up) ==
    LET k == CHOOSE k \in 1..Len(items) :
                /\ At(items, CyclicRow(items, from, k, up)).selectable
                /\ \A j \in 1..(k - 1) : ~At(items, CyclicRow(items, from, j, up)).selectable
    IN CyclicRow(items, from, k, up)

\* C16: in DiskSetup with a display list that has a selectable row, Up (Down)
\* moves the cursor to the nearest selectable row before (after) the current
\* one in cyclic order, skipping the rows that cannot be selected and wrapping
\* at the ends; the list index and the selected id_path are then those of
\* that row.
C16_CursorMovesToNearestSelectable ==
    (Running /\ InDiskSetup /\ SelectableRows(ui_state.current_disk_display_items) # {}) =>
        \A code \in {"Up", "Down"} : \A env \in Envs(Key(code)) :
            LET items == ui_state.current_disk_display_items
                r == After(Key(code), env).ui_state
                target == NearestSelectable(items, DiskCursor, code = "Up")
            IN /\ DiskCursor < Len(items)
               /\ At(items, target).selectable
               /\ r.disk_setup_list_state.selected = Some(target)
               /\ r.disk_setup_selected_item_path = Some(At(items, target).id_path)
               /\ r = [ui_state EXCEPT
                          !.disk_setup_list_state = ListState(Some(target)),
                          !.disk_setup_selected_item_path = Some(At(items, target).id_path)]

\* The cursor is on a selectable row that follows a row that cannot be
\* selected, on a list of two disks: Up or Down has skipped rows to get there.
C16_Witness ==
    /\ InDiskSetup
    /\ Len(Unwrap(ui_state.system_disk_info).disks) = 2
    /\ DiskCursor >= 2
    /\ At(ui_state.current_disk_display_items, DiskCursor).selectable
    /\ ~At(ui_state.current_disk_display_items, DiskCursor - 1).selectable
    /\ ui_state.disk_setup_selected_item_path =
           Some(At(ui_state.current_disk_display_items, DiskCursor).id_path)

----------------------------------------------------------------------------
(* C17 *)

\* C17: in DiskSetup with a display list in which no row is selectable, Up
\* and Down leave the cursor index and the selected id_path (and the rest of
\* the state) unchanged; for every display list and every cursor position in
\* it, the skip loop stops after at most one revolution of the list.
C17_DeadEndLeavesCursor ==
    (Running /\ InDiskSetup) =>
        LET items == ui_state.current_disk_display_items IN
        /\ \A from \in 0..(Len(items) - 1) : \A up \in BOOLEAN :
             LET first == disk_step(from, Len(items), up) IN
             /\ skip_loop_iterations(items, first, first, up) <= Len(items)
             /\ SelectableRows(items) = {} => IsNone(skip_loop(items, first, first, up))
        /\ SelectableRows(items) = {} =>
             \A code \in {"Up", "Down"} : \A env \in Envs(Key(code)) :
                LET r == After(Key(code), env) IN
                /\ r.ui_state.disk_setup_list_state = ui_state.disk_setup_list_state
                /\ r.ui_state.disk_setup_selected_item_path =
                       ui_state.disk_setup_selected_item_path
                /\ r.ui_state = ui_state
                /\ ~r.panicked

\* DiskSetup shows two disks without partitions: two headers, nothing to select.
C17_Witness ==
    /\ InDiskSetup
    /\ Len(ui_state.current_disk_display_items) >= 2
    /\ SelectableRows(ui_state.current_disk_display_items) = {}
    /\ ui_state.disk_setup_list_state.selected = Some(0)

----------------------------------------------------------------------------
(* C18 *)

\* The wizard is on UserSetup and no dialog is open.
InUserSetup ==
    /\ OnScreen("SystemInstallation") /\ NoDialog
    /\ ui_state.installation_step = Some("UserSetup")

\* C18: on UserSetup with no dialog, every character key appends its
\* character to input_buffer and changes nothing else; no character is
\* rejected or taken as a command.
C18_EveryCharIsTyped ==
    (Running /\ InUserSetup) =>
        \A ch \in Chars : \A env \in Envs(CharKey(ch)) :
            After(CharKey(ch), env) =
                [App(env) EXCEPT !.ui_state.input_buffer = Append(@, ch)]

----------------------------------------------------------------------------
(* C19 *)

\* C19: on UserSetup with no dialog and a non-empty input_buffer, Backspace
\* erases the last character of input_buffer, changes nothing else and leaves
\* the wizard on UserSetup.
C19_BackspaceErasesLastChar ==
    (Running /\ InUserSetup /\ ui_state.input_buffer # <<>>) =>
        \A env \in Envs(Key("Backspace")) :
            LET r == After(Key("Backspace"), env) IN
            /\ r.ui_state.input_buffer =
                   SubSeq(ui_state.input_buffer, 1, Len(ui_state.input_buffer) - 1)
            /\ r.ui_state.installation_step = Some("UserSetup")
            /\ r.ui_state.current_screen = "SystemInstallation"

----------------------------------------------------------------------------
(* C20 *)

\* C20: with no dialog open, Esc on LanguageSelect, KeyboardSelect, MainMenu
\* or SystemInstallation opens the YesNo exit confirmation (with "No"
\* selected) and changes nothing else, neither the screen nor the wizard; Esc
\* on the Message screen opens no dialog.
C20_EscOpensExitConfirmation ==
    (Running /\ NoDialog) =>
        \A key \in Keys : \A env \in Envs(key) :
            key.code = "Esc" =>
                LET r == After(key, env) IN
                /\ ui_state.current_screen \in
                       {"LanguageSelect", "KeyboardSelect", "MainMenu", "SystemInstallation"} =>
                       /\ IsExitDialog(r.ui_state.active_dialog)
                       /\ r = [App(env) EXCEPT
                                 !.ui_state.active_dialog =
                                     Some(YesNo("LANG_CONFIRM_TITLE", "LANG_EXIT_CONFIRM")),
                                 !.ui_state.dialog_selected_option = 1]
                /\ OnScreen("Message") => IsNone(r.ui_state.active_dialog)

\* Esc was pressed in the wizard on UserSetup with text typed: the exit
\* confirmation is open, "No" is selected and the wizard is as it was.
C20_Witness ==
    /\ OnScreen("SystemInstallation")
    /\ IsExitDialog(ui_state.active_dialog)
    /\ ui_state.dialog_selected_option = 1
    /\ ui_state.installation_step = Some("UserSetup")
    /\ ui_state.input_buffer # <<>>

----------------------------------------------------------------------------
(* C21 *)

\* C21: with no dialog open, Backspace on KeyboardSelect shows LanguageSelect
\* and Backspace on MainMenu shows KeyboardSelect; selected_index becomes 0,
\* previous_screen is the screen that was left, no dialog opens and nothing
\* else changes.
C21_BackspaceOnMenus ==
    (Running /\ NoDialog /\ ui_state.current_screen \in {"KeyboardSelect", "MainMenu"}) =>
        \A key \in Keys : \A env \in Envs(key) :
            key.code = "Backspace" =>
                LET r == After(key, env)
                    target == IF OnScreen("KeyboardSelect")
                              THEN "LanguageSelect" ELSE "KeyboardSelect"
                IN /\ r.ui_state.current_screen = target
                   /\ r.ui_state.selected_index = 0
                   /\ r.ui_state.previous_screen = ui_state.current_screen
                   /\ IsNone(r.ui_state.active_dialog)
                   /\ r = [App(env) EXCEPT !.ui_state.current_screen = target,
                                           !.ui_state.previous_screen = ui_state.current_screen,
                                           !.ui_state.selected_index = 0]

\* Backspace was pressed on MainMenu.
C21_Witness ==
    /\ OnScreen("KeyboardSelect")
    /\ ui_state.previous_screen = "MainMenu"
    /\ ui_state.selected_index = 0
    /\ NoDialog

----------------------------------------------------------------------------
(* C22 *)

\* Enter, Esc and Backspace on the Message screen clear the message and show
\* previous_screen, which is the screen the message was shown on.
MessageIsDismissed ==
    /\ (Running /\ NoDialog /\ OnScreen("Message")) =>
          \A key \in Keys : \A env \in Envs(key) :
              key.code \in {"Enter", "Esc", "Backspace"} =>
                  After(key, env) =
                      [App(env) EXCEPT !.ui_state.message = None,
                                       !.ui_state.current_screen = ui_state.previous_screen]
    /\ (Running /\ ~OnScreen("Message")) =>
          \A key \in Keys : \A env \in Envs(key) :
              LET r == After(key, env) IN
              r.ui_state.current_screen = "Message" =>
                  /\ r.ui_state.previous_screen = ui_state.current_screen
                  /\ IsSome(r.ui_state.message)
    /\ (Running /\ OnScreen("Message")) =>
          \A key \in Keys : \A env \in Envs(key) :
              After(key, env).ui_state.previous_screen = ui_state.previous_screen

\* C22 as stated: on the Message screen with no dialog, Enter, Esc and
\* Backspace clear the message and show the screen the message was shown on,
\* and every other key leaves the state unchanged.
C22_OtherKeysChangeNothing ==
    /\ MessageIsDismissed
    /\ (Running /\ NoDialog /\ OnScreen("Message")) =>
          \A key \in Keys : \A env \in Envs(key) :
              key.code \notin {"Enter", "Esc", "Backspace"} => After(key, env) = App(env)

\* C22, amended: as stated, except that Alt+T opens the theme selector over
\* the message; every key other than Enter, Esc, Backspace and Alt+T leaves
\* the state unchanged.
C22_MessageKeys ==
    /\ MessageIsDismissed
    /\ (Running /\ NoDialog /\ OnScreen("Message")) =>
          \A key \in Keys : \A env \in Envs(key) :
              key.code \notin {"Enter", "Esc", "Backspace"} =>
                  IF key.modifiers = "ALT" /\ IsChar(key, {"t", "T"})
                  THEN After(key, env) =
                           [App(env) EXCEPT
                               !.ui_state.active_dialog = Some(ThemeSelector),
                               !.ui_state.dialog_selected_option = ui_state.active_theme_index]
                  ELSE After(key, env) = App(env)

\* A message shown on MainMenu was dismissed: no message, MainMenu is shown
\* and was also the previous screen.
C22_Witness ==
    /\ OnScreen("MainMenu")
    /\ ui_state.previous_screen = "MainMenu"
    /\ IsNone(ui_state.message)

----------------------------------------------------------------------------
(* C23 *)

\* C23: Enter on MainMenu with "backup" or "keys" selected shows the Message
\* screen and changes nothing else; dismissing the message shows MainMenu
\* with the same selected_index, so that the state is the one before Enter
\* apart from previous_screen.
C23_NotImplementedNotice ==
    (Running /\ NoDialog /\ OnScreen("MainMenu")
        /\ IsSome(selected_menu_item(ui_state))
        /\ Unwrap(selected_menu_item(ui_state)).id \in {"backup", "keys"}) =>
        \A env \in Envs(Key("Enter")) :
            LET r == After(Key("Enter"), env) IN
            /\ r.ui_state.current_screen = "Message"
            /\ IsSome(r.ui_state.message)
            /\ r = [App(env) EXCEPT !.ui_state.current_screen = "Message",
                                    !.ui_state.previous_screen = "MainMenu",
                                    !.ui_state.message = r.ui_state.message]
            /\ \A code \in {"Enter", "Esc", "Backspace"} :
                 handle_key_event(r, Key(code)) =
                     [App(env) EXCEPT !.ui_state.previous_screen = "MainMenu"]

\* The notice is shown for the last menu item.
C23_Witness ==
    /\ OnScreen("Message")
    /\ ui_state.previous_screen = "MainMenu"
    /\ ui_state.selected_index = 2
    /\ IsSome(ui_state.message)

----------------------------------------------------------------------------
(* C24 *)

\* The keys of the model and the letters the dialogs take as arrows
DialogKeys == Keys \cup {CharKey(ch) : ch \in {"h", "j", "k"}}

ThemeSelectorOpen == ui_state.active_dialog = Some(ThemeSelector)

\* C24: in the ThemeSelector dialog Up/k and Down/j move the selection by one,
\* wrapping over the theme count; Enter makes the selection the active theme
\* and closes the dialog; Esc and Backspace close it and leave
\* active_theme_index as it is, which is its value when the dialog opened,
\* since no key changes active_theme_index but that Enter.
C24_ThemeSelector ==
    Running =>
        LET len == Len(ui_state.themes)
            sel == ui_state.dialog_selected_option
        IN \A key \in DialogKeys : \A env \in Envs(key) :
            LET r == After(key, env) IN
            /\ r.ui_state.active_theme_index # ui_state.active_theme_index =>
                   ThemeSelectorOpen /\ key.code = "Enter"
            /\ ThemeSelectorOpen =>
                /\ len > 0 /\ sel < len
                /\ (key.code = "Up" \/ key = CharKey("k")) =>
                       r = [App(env) EXCEPT !.ui_state.dialog_selected_option =
                               IF sel = 0 THEN len - 1 ELSE sel - 1]
                /\ (key.code = "Down" \/ key = CharKey("j")) =>
                       r = [App(env) EXCEPT !.ui_state.dialog_selected_option =
                               IF sel = len - 1 THEN 0 ELSE sel + 1]
                /\ key.code = "Enter" =>
                       r = [App(env) EXCEPT !.ui_state.active_theme_index = sel,
                                            !.ui_state.active_dialog = None]
                /\ key.code \in {"Esc", "Backspace"} =>
                       r = [App(env) EXCEPT !.ui_state.active_dialog = None]

\* The last theme was chosen in the dialog and committed.
C24_Witness ==
    /\ NoDialog
    /\ ui_state.active_theme_index = Len(ui_state.themes) - 1
    /\ ui_state.dialog_selected_option = ui_state.active_theme_index

----------------------------------------------------------------------------
(* C25 *)

\* C25: Alt+T with no dialog open, on any screen, opens the ThemeSelector
\* dialog with the active theme selected and changes nothing else; Enter right
\* after it leaves the active theme as it was.
C25_AltTOpensThemeSelector ==
    (Running /\ NoDialog) =>
        \A ch \in {"t", "T"} : \A env \in Envs(AltKey(ch)) :
            LET r == After(AltKey(ch), env) IN
            /\ r = [App(env) EXCEPT
                      !.ui_state.active_dialog = Some(ThemeSelector),
                      !.ui_state.dialog_selected_option = ui_state.active_theme_index]
            /\ handle_key_event(r, Key("Enter")) =
                   [App(env) EXCEPT
                      !.ui_state.dialog_selected_option = ui_state.active_theme_index]

\* The theme selector was opened in the wizard while a theme other than the
\* first was active, and it selects that theme.
C25_Witness ==
    /\ ThemeSelectorOpen
    /\ OnScreen("SystemInstallation")
    /\ ui_state.active_theme_index > 0
    /\ ui_state.dialog_selected_option = ui_state.active_theme_index

----------------------------------------------------------------------------
(* C26 *)

\* One disk with one partition that is a LUKS container opened as an LVM
\* physical volume; no volume groups.
LuksLvmSnapshot(disk_path, part_path, uuid, mapped_name, pv_uuid) ==
    SystemDiskInfo(
        << PhysicalDisk(disk_path,
               << Partition(part_path,
                      Some(LuksContainer(uuid, Some(mapped_name),
                               Some(LvmPhysicalVolume(pv_uuid))))) >>) >>,
        <<>>)

\* Such snapshots: partition paths that extend the disk's path, as device
\* names do, and several identifiers.
LuksLvmSnapshots ==
    { LuksLvmSnapshot(d, d \o p, u, "cr_lvm", pv) :
        d \in {"/dev/sda", "/dev/nvme0n1"}, p \in {"1", "p2"},
        u \in {"luks-uuid", "u"}, pv \in {"lvm-pv-uuid", "u"} }

\* What a row's id_path can add to the id_path of the row it hangs under
IdSuffixes ==
    {"1", "p2"}
    \cup {"/luks/" \o u : u \in {"luks-uuid", "u"}}
    \cup {"/lvm_pv/" \o pv : pv \in {"lvm-pv-uuid", "u"}}

Extends(child, parent) == \E suffix \in IdSuffixes : child = parent \o suffix

\* The four rows of the claim
IsLuksLvmList(items) ==
    /\ Len(items) = 4
    /\ [i \in 1..4 |-> items[i].item_type] =
           <<"Disk", "Partition", "LuksContainer", "LvmPhysicalVolume">>
    /\ [i \in 1..4 |-> items[i].selectable] = <<FALSE, TRUE, FALSE, FALSE>>
    /\ [i \in 1..4 |-> items[i].indent_level] = <<0, 1, 2, 3>>
    /\ \A i, j \in 1..4 : i # j => items[i].id_path # items[j].id_path
    /\ \A i \in 2..4 : Extends(items[i].id_path, items[i - 1].id_path)

\* C26: for a snapshot with one disk holding one partition that is a LUKS
\* container mapped to an LVM physical volume, and no volume groups,
\* build_disk_display_list returns exactly 4 rows: disk header (not
\* selectable), partition (selectable), LUKS container (not selectable), LVM
\* PV (not selectable), with pairwise distinct id_paths, each child's
\* extending its parent's; DiskSetup shows that list for such a snapshot.
C26_LuksLvmRows ==
    /\ \A info \in LuksLvmSnapshots : IsLuksLvmList(build_disk_display_list(info))
    /\ (InDiskSetup /\ ui_state.system_disk_info \in {Some(info) : info \in LuksLvmSnapshots}) =>
           IsLuksLvmList(ui_state.current_disk_display_items)

\* DiskSetup on such a snapshot, the cursor on the partition row
C26_Witness ==
    /\ InDiskSetup
    /\ ui_state.system_disk_info \in {Some(info) : info \in LuksLvmSnapshots}
    /\ Len(ui_state.current_disk_display_items) = 4
    /\ ui_state.disk_setup_list_state.selected = Some(1)

----------------------------------------------------------------------------
(* C27 *)

\* The indices (from 0) of the rows of a display list with the given id_path
RowsWithId(items, id_path) == {i \in 0..(Len(items) - 1) : At(items, i).id_path = id_path}

\* C27: the display list rebuilt from the same snapshot is the list that is
\* shown (same rows, order, id_path and selectable), so after Up or Down
\* selected a row in DiskSetup, the selected id_path is in the rebuilt list at
\* exactly one index, on a selectable row, which is the row of the cursor.
C27_SelectionSurvivesRebuild ==
    (Running /\ InDiskSetup /\ IsSome(ui_state.system_disk_info)) =>
        /\ build_disk_display_list(Unwrap(ui_state.system_disk_info))
               = ui_state.current_disk_display_items
        /\ SelectableRows(ui_state.current_disk_display_items) # {} =>
             \A code \in {"Up", "Down"} : \A env \in Envs(Key(code)) :
                LET r == After(Key(code), env).ui_state
                    rebuilt == build_disk_display_list(Unwrap(r.system_disk_info))
                IN /\ rebuilt = r.current_disk_display_items
                   /\ IsSome(r.disk_setup_selected_item_path)
                   /\ \E i \in 0..(Len(rebuilt) - 1) :
                        /\ RowsWithId(rebuilt, Unwrap(r.disk_setup_selected_item_path)) = {i}
                        /\ At(rebuilt, i).selectable
                        /\ r.disk_setup_list_state.selected = Some(i)

\* A row of the second disk is selected and its id_path is in the list.
C27_Witness ==
    /\ InDiskSetup
    /\ Len(Unwrap(ui_state.system_disk_info).disks) = 2
    /\ IsSome(ui_state.disk_setup_selected_item_path)
    /\ \E i \in SelectableRows(ui_state.current_disk_display_items) :
         /\ i > 2
         /\ ui_state.disk_setup_list_state.selected = Some(i)
         /\ RowsWithId(ui_state.current_disk_display_items,
                       Unwrap(ui_state.disk_setup_selected_item_path)) = {i}

----------------------------------------------------------------------------
(* C28 *)

ScrollFields ==
    {"task_description_scroll_offset", "task_description_total_lines",
     "task_description_scrollbar_state"}

\* The UiState without the scroll bookkeeping of the task description
Business(s) == [f \in (DOMAIN s) \ ScrollFields |-> s[f]]

\* The offset is within [0, total_lines - visible_height], and 0 when the text
\* is not taller than the viewport.
OffsetClamped(s, height) ==
    /\ s.task_description_scroll_offset \in
           0..saturating_sub(s.task_description_total_lines, height)
    /\ s.task_description_total_lines <= height => s.task_description_scroll_offset = 0

\* C28: in every state the loop reaches, a draw on a terminal of any size
\* leaves every UiState field other than the scroll offset, the total lines
\* and the scrollbar state as it was, leaves the offset within
\* [0, total_lines - visible_height] and at 0 when the text is not taller than
\* the viewport, and changes nothing at all while a dialog is open; and
\* draw_task_description clamps any offset, for any number of lines and any
\* viewport.
C28_DrawKeepsBusinessState ==
    ~panicked =>
        /\ \A rows \in 0..DescriptionBoxHeight :
               LET drawn == draw_ui(ui_state, CURRENT_LANGUAGE, rows) IN
               /\ Business(drawn) = Business(ui_state)
               /\ OffsetClamped(drawn, visible_height(rows))
               /\ IsSome(ui_state.active_dialog) => drawn = ui_state
        /\ \A offset \in 0..(MaxLines + 1), total_lines \in 0..MaxLines, height \in 0..MaxLines :
               LET before == [ui_state EXCEPT !.task_description_scroll_offset = offset]
                   drawn == scroll_bookkeeping(before, total_lines, height)
               IN /\ Business(drawn) = Business(ui_state)
                  /\ drawn.task_description_total_lines = total_lines
                  /\ OffsetClamped(drawn, height)

\* The wizard is on the terminal, drawn in a box too low for its one line of
\* description, and the state is the one that was drawn.
C28_Witness ==
    /\ Running /\ NoDialog /\ OnScreen("SystemInstallation")
    /\ pc = "poll"
    /\ terminal.frame = Some(Frame(ui_state))
    /\ visible_height(terminal.description_rows) = 0
    /\ ui_state.task_description_total_lines = 1
    /\ ui_state.task_description_scrollbar_state = ScrollbarState(1, 0)
    /\ ui_state.task_description_scroll_offset = 0

----------------------------------------------------------------------------
(* C29 *)

\* p is the integer nearest to 100 * idx / total (halves upwards)
IsRoundedPercentage(p, idx, total) ==
    /\ 2 * total * p - total <= 200 * idx
    /\ 200 * idx < 2 * total * p + total

\* C29: in every state the handlers reach, the percentage of the progress gauge
\* is within 0..100, is 0 when the task list is empty and when the wizard is
\* on Welcome at index 0, and otherwise is current_installation_task_index /
\* installation_tasks.len() as a percentage rounded to the nearest integer.
C29_ProgressPercent ==
    ~panicked =>
        LET p == progress_percent(ui_state)
            total == Len(ui_state.installation_tasks)
            idx == ui_state.current_installation_task_index
        IN /\ p \in 0..100
           /\ total = 0 => p = 0
           /\ (ui_state.installation_step = Some("Welcome") /\ idx = 0) => p = 0
           /\ total > 0 => IsRoundedPercentage(p, idx, total)

\* The wizard on its last task: three of four tasks, 75 percent
C29_Witness ==
    /\ Running /\ NoDialog /\ OnScreen("SystemInstallation")
    /\ Len(ui_state.installation_tasks) = 4
    /\ ui_state.current_installation_task_index = 3
    /\ progress_percent(ui_state) = 75
    /\ Frame(ui_state).gauge = Some(75)

----------------------------------------------------------------------------
(* C30 *)

\* The step changes something else than the scroll bookkeeping of a draw
NavigationChanged ==
    \/ Business(ui_state') # Business(ui_state)
    \/ config' # config
    \/ CURRENT_LANGUAGE' # CURRENT_LANGUAGE
    \/ should_quit' # should_quit

\* The step draws a frame of the state as it is
Redraws ==
    /\ terminal'.frame = Some(Frame(ui_state))
    /\ ui_state' = draw_ui(ui_state, CURRENT_LANGUAGE, terminal'.description_rows)

\* One step of the loop: the state changes only where the loop reads an event,
\* between the poll and the tick check, and not once the quit flag is set;
\* the tick check follows, draws if and only if tick_rate has passed, and
\* leads back to the poll; a resize draws at once, and it and the ignored
\* events change nothing else; the quit flag stays set.
LoopStep ==
    /\ NavigationChanged => pc = "poll" /\ pc' = "tick"
    /\ (pc = "poll" /\ pc' = "tick") => ~should_quit
    /\ (pc = "tick" /\ pc' # "failed") =>
           /\ pc' = "poll"
           /\ ~NavigationChanged
           /\ IF last_tick_elapsed THEN Redraws /\ ~last_tick_elapsed'
                                   ELSE UNCHANGED <<ui_state, terminal>>
    /\ ReadResize => Redraws /\ ~NavigationChanged
    /\ ReadIgnored => UNCHANGED <<ui_state, terminal>> /\ ~NavigationChanged
    /\ should_quit => should_quit'

\* C30: each iteration of the loop handles at most one event and then draws if
\* the tick deadline has passed; a resize draws at once and, like the ignored
\* events, changes no navigation state; once the quit flag is set no event is
\* handled and the flag stays set; and run is left only with the quit flag set.
C30_LoopExitsOnlyOnQuit ==
    [][ /\ LoopStep
        /\ (pc \in {"poll", "tick"} /\ pc' \in {"done", "failed"}) => should_quit ]_vars

----------------------------------------------------------------------------
(* C31 *)

\* The selectable rows other than the cursor's
OtherSelectableRows == SelectableRows(ui_state.current_disk_display_items) \ {DiskCursor}

\* There are selectable rows, and they all lie on the side of the cursor that
\* the key moves away from: above it for Down, below it for Up.
OnlyOppositeRows(code) ==
    /\ OtherSelectableRows # {}
    /\ \A i \in OtherSelectableRows : IF code = "Down" THEN i < DiskCursor ELSE i > DiskCursor

SetMin(S) == CHOOSE x \in S : \A y \in S : x <= y
SetMax(S) == CHOOSE x \in S : \A y \in S : x >= y

\* C31: in DiskSetup, when the selectable rows lie only on the side opposite
\* to the pressed key, Up and Down leave the cursor (list index and selected
\* id_path) where it is.
C31_OppositeRowsNotFound ==
    (Running /\ InDiskSetup) =>
        \A code \in {"Up", "Down"} : \A env \in Envs(Key(code)) :
            OnlyOppositeRows(code) =>
                LET r == After(Key(code), env).ui_state IN
                /\ r.disk_setup_list_state = ui_state.disk_setup_list_state
                /\ r.disk_setup_selected_item_path = ui_state.disk_setup_selected_item_path

\* C31 as the code has it: in DiskSetup, when the selectable rows lie only on
\* the side opposite to the pressed key, the scan wraps at the end of the list
\* and finds them within its one revolution: Down selects the first selectable
\* row of the list and Up the last one, list index and id_path both.
C31_OppositeRowsFoundByWrapping ==
    (Running /\ InDiskSetup) =>
        \A code \in {"Up", "Down"} : \A env \in Envs(Key(code)) :
            OnlyOppositeRows(code) =>
                LET items == ui_state.current_disk_display_items
                    r == After(Key(code), env).ui_state
                    target == IF code = "Down" THEN SetMin(OtherSelectableRows)
                                               ELSE SetMax(OtherSelectableRows)
                IN /\ target # DiskCursor
                   /\ r.disk_setup_list_state.selected = Some(target)
                   /\ r.disk_setup_selected_item_path = Some(At(items, target).id_path)

\* The cursor has been moved to the last selectable row of a list with
\* selectable rows above it only, and Down from here wraps to the first one.
C31_Witness ==
    /\ Running /\ InDiskSetup
    /\ DiskCursor < Len(ui_state.current_disk_display_items)
    /\ At(ui_state.current_disk_display_items, DiskCursor).selectable
    /\ ui_state.disk_setup_selected_item_path =
           Some(At(ui_state.current_disk_display_items, DiskCursor).id_path)
    /\ OnlyOppositeRows("Down")
    /\ After(Key("Down"), [set_keyboard_ok |-> TRUE, overflow_checks |-> TRUE])
           .ui_state.disk_setup_list_state.selected = Some(SetMin(OtherSelectableRows))

----------------------------------------------------------------------------
(* C32 *)

\* The task at the index is not the task of installation_step, or there is no
\* task at the index.
IndexMismatch(s) == ~IndexMatchesStep(s)

\* The tasks whose step is installation_step
MatchingTasks(s) ==
    {i \in 0..(Len(s.installation_tasks) - 1) :
         Some(At(s.installation_tasks, i).step) = s.installation_step}

\* What the repair pass is to do with the state s when it returns r
Repaired(s, r) ==
    IF MatchingTasks(s) # {}
    THEN /\ r.current_installation_task_index = SetMin(MatchingTasks(s))
         /\ TasksWith(r.installation_tasks, "Active") = {SetMin(MatchingTasks(s))}
    ELSE /\ r.current_installation_task_index = s.current_installation_task_index
         /\ TasksWith(r.installation_tasks, "Active") = {}

----------------------------------------------------------------------------
(* C33 *)

\* C33: whenever current_screen is LanguageSelect, previous_screen is
\* LanguageSelect or KeyboardSelect; and with no dialog open Backspace on
\* LanguageSelect opens the exit confirmation and leaves the screen (and the
\* rest of the state) as it is, so the fallback to previous_screen is never
\* taken there.
C33_BackspaceOnLanguageSelect ==
    (Running /\ OnScreen("LanguageSelect")) =>
        /\ ui_state.previous_screen \in {"LanguageSelect", "KeyboardSelect"}
        /\ NoDialog =>
             \A env \in Envs(Key("Backspace")) :
                LET r == After(Key("Backspace"), env) IN
                /\ IsExitDialog(r.ui_state.active_dialog)
                /\ r.ui_state.current_screen = "LanguageSelect"
                /\ [r.ui_state EXCEPT !.active_dialog = None,
                                      !.dialog_selected_option = ui_state.dialog_selected_option]
                       = ui_state
                /\ ~r.should_quit /\ ~r.panicked

\* Back on LanguageSelect from KeyboardSelect, Backspace has opened the exit
\* confirmation.
C33_Witness ==
    /\ Running /\ OnScreen("LanguageSelect")
    /\ ui_state.previous_screen = "KeyboardSelect"
    /\ IsExitDialog(ui_state.active_dialog)

----------------------------------------------------------------------------
(* C34 *)

\* C34: current_screen is never ConfirmExit and previous_screen is never
\* Message or ConfirmExit; a message is present exactly when current_screen is
\* Message; and Enter, Esc or Backspace on the Message screen leaves a screen
\* other than Message with no message.
C34_MessageScreen ==
    ~panicked =>
        /\ ui_state.current_screen # "ConfirmExit"
        /\ ui_state.previous_screen \notin {"Message", "ConfirmExit"}
        /\ IsSome(ui_state.message) <=> ui_state.current_screen = "Message"
        /\ (Running /\ NoDialog /\ OnScreen("Message")) =>
             \A code \in {"Enter", "Esc", "Backspace"} : \A env \in Envs(Key(code)) :
                LET r == After(Key(code), env).ui_state IN
                /\ r.current_screen # "Message"
                /\ r.current_screen = ui_state.previous_screen
                /\ IsNone(r.message)

\* A message has been shown and dismissed: the screen it was shown from is
\* back, and it is still remembered as the previous screen.
C34_Witness ==
    /\ Running /\ NoDialog /\ OnScreen("MainMenu")
    /\ ui_state.previous_screen = "MainMenu"
    /\ IsNone(ui_state.message)

----------------------------------------------------------------------------
(* C35 *)

\* C35: the wizard screen, a set installation_step and a non-empty task list
\* go together; when they hold the list has its 4 tasks and the task index is
\* inside it.
C35_WizardStateTogether ==
    ~panicked =>
        /\ OnScreen("SystemInstallation") <=> IsSome(ui_state.installation_step)
        /\ IsSome(ui_state.installation_step) <=> ui_state.installation_tasks # <<>>
        /\ OnScreen("SystemInstallation") =>
             /\ Len(ui_state.installation_tasks) = 4
             /\ ui_state.current_installation_task_index < Len(ui_state.installation_tasks)

\* The wizard has been left from its first task: back on the main menu, no
\* step and no tasks.
C35_Witness ==
    /\ Running /\ NoDialog /\ OnScreen("MainMenu")
    /\ ui_state.previous_screen = "SystemInstallation"
    /\ IsNone(ui_state.installation_step)
    /\ ui_state.installation_tasks = <<>>

----------------------------------------------------------------------------
(* C36 *)

\* The list the shared cursor points into on this screen
CursorListLen(s) ==
    CASE s.current_screen = "LanguageSelect" -> Len(s.languages)
      [] s.current_screen = "KeyboardSelect" -> Len(s.keyboards)
      [] s.current_screen = "MainMenu" -> Len(s.menu_items)

\* C36: on LanguageSelect, KeyboardSelect and MainMenu selected_index is an
\* index of the list of that screen (languages, keyboards, menu items), with
\* or without a dialog open.
C36_CursorInsideList ==
    (~panicked /\ ui_state.current_screen \in {"LanguageSelect", "KeyboardSelect", "MainMenu"}) =>
        ui_state.selected_index < CursorListLen(ui_state)

\* Back on the main menu from a message, with the cursor still on the last
\* menu item.
C36_Witness ==
    /\ Running /\ NoDialog /\ OnScreen("MainMenu")
    /\ ui_state.previous_screen = "MainMenu"
    /\ ui_state.selected_index = Len(ui_state.menu_items) - 1
    /\ ui_state.selected_index > 0

----------------------------------------------------------------------------
(* C37 *)

\* C37: with no dialog open on a screen other than Message, Esc opens the
\* exit confirmation with option 1 ("No") selected, and Enter right after it
\* closes the dialog without setting the quit flag: the state is the one
\* before Esc, apart from dialog_selected_option.
C37_EscEnterChangesNothing ==
    (Running /\ NoDialog /\ ~OnScreen("Message")) =>
        \A env \in Envs(Key("Esc")) :
            LET opened == After(Key("Esc"), env)
                closed == press_keys(App(env), << Key("Esc"), Key("Enter") >>)
            IN /\ IsExitDialog(opened.ui_state.active_dialog)
               /\ opened.ui_state.dialog_selected_option = 1
               /\ ~closed.should_quit /\ ~closed.panicked
               /\ closed.ui_state = [ui_state EXCEPT !.dialog_selected_option = 1]
               /\ closed.config = config
               /\ closed.lang = CURRENT_LANGUAGE

\* The wizard, with "Yes" left selected by an earlier dialog: Esc and Enter
\* come back to this state with "No" selected and do not quit.
C37_Witness ==
    /\ Running /\ NoDialog /\ OnScreen("SystemInstallation")
    /\ ui_state.dialog_selected_option = 0
    /\ ui_state.current_installation_task_index > 0
    /\ LET closed == press_keys(App(RepairEnv), << Key("Esc"), Key("Enter") >>)
       IN /\ ~closed.should_quit
          /\ closed.ui_state = [ui_state EXCEPT !.dialog_selected_option = 1]

----------------------------------------------------------------------------
(* C38 *)

\* C38: while a YesNo dialog is open dialog_selected_option is 0 or 1, while
\* the ThemeSelector is open it is an index of themes, and active_theme_index
\* is an index of themes in every state.
C38_DialogOptionInRange ==
    ~panicked =>
        /\ IsYesNo(ui_state.active_dialog) => ui_state.dialog_selected_option \in {0, 1}
        /\ ThemeSelectorOpen => ui_state.dialog_selected_option < Len(ui_state.themes)
        /\ ui_state.active_theme_index < Len(ui_state.themes)


\* A YesNo dialog is open after the ThemeSelector has made the last theme of
\* the list the active one, which left the shared option past 1.
C38_Witness ==
    /\ Running /\ IsYesNo(ui_state.active_dialog)
    /\ ui_state.active_theme_index = Len(ui_state.themes) - 1
    /\ ui_state.active_theme_index > 1
    /\ ui_state.dialog_selected_option \in {0, 1}

----------------------------------------------------------------------------
(* C39 *)

\* C39: input_buffer holds something only in the wizard at UserSetup or at a
\* later task; it is empty on every other screen and at Welcome and DiskSetup.
\* Enter at UserSetup moves on to the next task and leaves the buffer as it is.
C39_InputBufferOnlyFromUserSetup ==
    ~panicked =>
        /\ ui_state.input_buffer # <<>> =>
             /\ OnScreen("SystemInstallation")
             /\ ui_state.installation_step \in {Some("UserSetup"), Some("Summary")}
             /\ ui_state.current_installation_task_index >= 2
        /\ (Running /\ NoDialog /\ InUserSetup) =>
             \A env \in Envs(Key("Enter")) :
                LET r == After(Key("Enter"), env).ui_state IN
                /\ r.installation_step = Some("Summary")
                /\ r.input_buffer = ui_state.input_buffer

\* The wizard is past UserSetup and still holds what was typed there.
C39_Witness ==
    /\ Running /\ OnScreen("SystemInstallation")
    /\ ui_state.installation_step = Some("Summary")
    /\ ui_state.input_buffer # <<>>

----------------------------------------------------------------------------
(* C40 *)

\* The way out: close the open dialog, dismiss the message, then Esc, 'y', Enter
QuitSequence ==
    (IF NoDialog THEN <<>> ELSE << Key("Esc") >>)
    \o (IF OnScreen("Message") THEN << Key("Enter") >> ELSE <<>>)
    \o << Key("Esc"), CharKey("y"), Key("Enter") >>

\* C40: from every state with the quit flag false, the at most 5 key presses
\* that close the open dialog, dismiss the message and confirm the exit
\* dialog with "Yes" set the quit flag, and no prefix of them does.
C40_CanAlwaysQuit ==
    Running =>
        \A env \in Envs(Key("Esc")) :
            /\ Len(QuitSequence) <= 5
            /\ press_keys(App(env), QuitSequence).should_quit
            /\ ~press_keys(App(env), QuitSequence).panicked
            /\ \A n \in 0..(Len(QuitSequence) - 1) :
                   ~press_keys(App(env), SubSeq(QuitSequence, 1, n)).should_quit

\* The theme selector is open over a message: all five key presses are needed.
C40_Witness ==
    /\ Running /\ ThemeSelectorOpen /\ OnScreen("Message")
    /\ Len(QuitSequence) = 5
    /\ press_keys(App(RepairEnv), QuitSequence).should_quit

====
